---- MODULE Spec2Model ----
(***************************************************************************)
(* Model of the mutual fund recommendation engine                          *)
(* (src/recommendation_model.py, class FundRecommender).                   *)
(*                                                                         *)
(* Text is modelled as a sequence of words (the text split at single       *)
(* spaces).  Python's s.lower() is the word-wise map Lower, and Python's   *)
(* "k in s" is Contains: the words of k occur at consecutive positions of  *)
(* s, the first as a suffix, the last as a prefix, a single one as a       *)
(* substring of the word it meets.                                         *)
(*                                                                         *)
(* Percentages are kept as integers: a target_equity_pct of 80.0 is 80,    *)
(* and equity_pct = 0.80 is 80 hundredths (the float divisions by 100.0    *)
(* of the integers 0..100 are exact enough that equity_pct + debt_pct is   *)
(* 1.0 in IEEE doubles for each of them).                                  *)
(***************************************************************************)
EXTENDS Integers, Sequences, FiniteSets, TLC

VARIABLES
    pc,               \* "new" before FundRecommender.__init__, "ready" after
                      \* it, "failed" when it raised, "served" while the
                      \* caller holds a request's result
    raw_columns,      \* the columns of the dataset file (its header)
    raw_schemes,      \* the rows read by pd.read_csv (the dataset file)
    load_error,       \* the exception __init__ raised, if it raised
    df_schemes,       \* self.df_schemes after __init__
    profile,          \* the UserProfile of the last request
    top_n,            \* the top_n of the last request
    df_filtered,      \* what _hard_filter returned for the last request
    alloc,            \* what _compute_allocation returned for the last request
    recommendations,  \* what recommend() returned for the last request
    outcome,          \* how the last request ended: "returned" or "raised"
    request,          \* the JSON body of the last POST /recommend
    response,         \* the answer of the last POST /recommend
    stable_sort,      \* whether the installed numpy's default sort keeps
                      \* equal keys in their order
    explain_row,      \* the row of a direct call of _explain_fund
    explain_outcome,  \* how that call ended: "returned" or "raised"
    explain_reason,   \* the fragments of the text it returned
    fetch_pc,         \* mf_fetcher: "idle", "running", "done" or "failed"
    fetch_df,         \* the scheme codes of its input list
    fetch_resume,     \* the resume argument of the run
    fetch_idx,        \* the idx of the next iteration of its loop
    fetch_results,    \* results: the rows of the run, by scheme code
    fetch_output,     \* the output file
    fetch_checkpoint, \* the checkpoint file
    build_pc,         \* build_full_mf_dataset: "idle", "running" or "done"
    build_df_list,    \* the scheme codes of its input list
    build_save_every, \* --save_every
    build_i,          \* the i of the next iteration of its loop
    build_rows_out,   \* rows_out, by scheme code
    build_existing_codes, \* existing_codes
    build_output_csv, \* the output CSV
    build_checkpoint  \* next_index of the checkpoint file, 0 without a file

\* The dataset file and the installed libraries, which no operation writes.
catalog_vars == <<raw_columns, raw_schemes, stable_sort>>
\* The HTTP layer's request and response.
api_vars == <<request, response>>

\* The direct call of _explain_fund.
explain_vars == <<explain_row, explain_outcome, explain_reason>>
\* The run of mf_fetcher.process_all_schemes and its files.
fetch_vars == <<fetch_pc, fetch_df, fetch_resume, fetch_idx, fetch_results,
                fetch_output, fetch_checkpoint>>
\* The run of build_full_mf_dataset.main and its files.
build_vars == <<build_pc, build_df_list, build_save_every, build_i,
                build_rows_out, build_existing_codes, build_output_csv,
                build_checkpoint>>
\* What the engine and the API never touch.
tool_vars == <<explain_vars, fetch_vars, build_vars>>
\* The engine and the API.
engine_vars == <<pc, raw_columns, raw_schemes, load_error, df_schemes,
                 profile, top_n, df_filtered, alloc, recommendations,
                 outcome, request, response, stable_sort>>

vars == <<engine_vars, tool_vars>>

(***************************************************************************)
(* Text                                                                    *)
(***************************************************************************)

\* The words that carry upper-case letters, with their lower-case form.
LowerTable ==
    [w \in {"Gold", "SILVER", "Bond", "Index", "SDL", "G-Sec", "G-Security",
            "Bharat", "PSU", "Fund", "Funds", "Debt", "Scheme", "Liquid",
            "Overnight", "Corporate", "Ultra", "Short", "Duration", "Banking",
            "Gilt", "Money", "Market", "Dynamic", "Equity", "Large", "Cap",
            "Mid", "Small", "Flexi", "Sectoral/", "Thematic", "Multi",
            "Hybrid", "Arbitrage", "Balanced", "Advantage", "Other", "ETF",
            "FoF", "Domestic", "Income", "Growth", "HDFC", "ICICI", "SBI",
            "Nippon", "Kotak", "Axis", "Quant", "Emergency", "Retirement",
            "Wealth", "Low", "Moderate", "High", "Very", "Medium",
            "Highest", "Beginner", "Intermediate", "Expert", "Direct",
            "Regular"} |->
        CASE w = "Gold" -> "gold"
          [] w = "SILVER" -> "silver"
          [] w = "Bond" -> "bond"
          [] w = "Index" -> "index"
          [] w = "SDL" -> "sdl"
          [] w = "G-Sec" -> "g-sec"
          [] w = "G-Security" -> "g-security"
          [] w = "Bharat" -> "bharat"
          [] w = "PSU" -> "psu"
          [] w = "Fund" -> "fund"
          [] w = "Funds" -> "funds"
          [] w = "Debt" -> "debt"
          [] w = "Scheme" -> "scheme"
          [] w = "Liquid" -> "liquid"
          [] w = "Overnight" -> "overnight"
          [] w = "Corporate" -> "corporate"
          [] w = "Ultra" -> "ultra"
          [] w = "Short" -> "short"
          [] w = "Duration" -> "duration"
          [] w = "Banking" -> "banking"
          [] w = "Gilt" -> "gilt"
          [] w = "Money" -> "money"
          [] w = "Market" -> "market"
          [] w = "Dynamic" -> "dynamic"
          [] w = "Equity" -> "equity"
          [] w = "Large" -> "large"
          [] w = "Cap" -> "cap"
          [] w = "Mid" -> "mid"
          [] w = "Small" -> "small"
          [] w = "Flexi" -> "flexi"
          [] w = "Sectoral/" -> "sectoral/"
          [] w = "Thematic" -> "thematic"
          [] w = "Multi" -> "multi"
          [] w = "Hybrid" -> "hybrid"
          [] w = "Arbitrage" -> "arbitrage"
          [] w = "Balanced" -> "balanced"
          [] w = "Advantage" -> "advantage"
          [] w = "Other" -> "other"
          [] w = "ETF" -> "etf"
          [] w = "FoF" -> "fof"
          [] w = "Domestic" -> "domestic"
          [] w = "Income" -> "income"
          [] w = "Growth" -> "growth"
          [] w = "HDFC" -> "hdfc"
          [] w = "ICICI" -> "icici"
          [] w = "SBI" -> "sbi"
          [] w = "Nippon" -> "nippon"
          [] w = "Kotak" -> "kotak"
          [] w = "Axis" -> "axis"
          [] w = "Quant" -> "quant"
          [] w = "Emergency" -> "emergency"
          [] w = "Retirement" -> "retirement"
          [] w = "Wealth" -> "wealth"
          [] w = "Low" -> "low"
          [] w = "Moderate" -> "moderate"
          [] w = "High" -> "high"
          [] w = "Very" -> "very"
          [] w = "Medium" -> "medium"
          [] w = "Highest" -> "highest"
          [] w = "Beginner" -> "beginner"
          [] w = "Intermediate" -> "intermediate"
          [] w = "Expert" -> "expert"
          [] w = "Direct" -> "direct"
          [] w = "Regular" -> "regular"]

\* str.lower() of one word: a word without upper-case letters is unchanged.
LowerWord(w) == IF w \in DOMAIN LowerTable THEN LowerTable[w] ELSE w

\* str.lower() of a text.
Lower(s) == [i \in 1..Len(s) |-> LowerWord(s[i])]

\* <<k, w>>: the keyword word k occurs inside the longer word w.
ProperSubstrings ==
    {<<"g-sec", "g-security">>, <<"sectoral", "sectoral/">>,
     <<"fund", "funds">>, <<"1-3", "1-3yr">>, <<"3-5", "3-5yr">>,
     <<"<1", "<1yr">>, <<"1yr", "<1yr">>, <<"high", "highest">>}
\* <<k, w>>: the longer word w starts with k.
ProperPrefixes ==
    {<<"g-sec", "g-security">>, <<"sectoral", "sectoral/">>,
     <<"fund", "funds">>, <<"1-3", "1-3yr">>, <<"3-5", "3-5yr">>,
     <<"<1", "<1yr">>, <<"high", "highest">>}
\* <<k, w>>: the longer word w ends with k.
ProperSuffixes == {<<"1yr", "<1yr">>}

IsSubstring(k, w) == k = w \/ <<k, w>> \in ProperSubstrings
IsPrefix(k, w) == k = w \/ <<k, w>> \in ProperPrefixes
IsSuffix(k, w) == k = w \/ <<k, w>> \in ProperSuffixes

\* Python's "k in s" for a keyword k and a text s, both sequences of words.
Contains(s, k) ==
    \E i \in 1..(Len(s) - Len(k) + 1) :
        IF Len(k) = 1
        THEN IsSubstring(k[1], s[i])
        ELSE /\ IsSuffix(k[1], s[i])
             /\ IsPrefix(k[Len(k)], s[i + Len(k) - 1])
             /\ \A j \in 2..(Len(k) - 1) : k[j] = s[i + j - 1]

\* any(k in s for k in keywords)
ContainsAny(s, keywords) == \E k \in keywords : Contains(s, k)

\* A missing cell (NaN) of a text column.
NaN == <<"<NaN>">>
\* str(x) of a cell of a text column: str(float('nan')) is 'nan'.
Str(x) == IF x = NaN THEN <<"nan">> ELSE x
\* Series.fillna('') of a cell of a text column.
FillNaEmpty(x) == IF x = NaN THEN <<>> ELSE x

(***************************************************************************)
(* Stage 1: classification (FundRecommender._classify_funds)               *)
(***************************************************************************)

exclusion_keywords ==
    {<<"gold">>, <<"silver">>, <<"commodity">>, <<"real", "estate">>,
     <<"reits">>}

name_debt_keywords ==
    {<<"bond">>, <<"sdl">>, <<"g-sec">>, <<"g-security">>,
     <<"bharat", "bond">>}

debt_keywords ==
    {<<"liquid">>, <<"overnight">>, <<"corporate", "bond">>,
     <<"ultra", "short">>, <<"gilt">>, <<"bond", "index">>,
     <<"bond", "plus">>, <<"sdl">>, <<"target", "maturity">>,
     <<"money", "market">>, <<"floater">>, <<"credit", "risk">>,
     <<"banking">>, <<"psu", "bond">>, <<"short", "duration">>,
     <<"bharat", "bond">>, <<"fof">>}

hybrid_keywords ==
    {<<"arbitrage">>, <<"dynamic", "bond">>, <<"hybrid">>, <<"balanced">>}

equity_keywords ==
    {<<"large", "cap">>, <<"mid", "cap">>, <<"small", "cap">>, <<"flexi">>,
     <<"flexi", "cap">>, <<"sectoral">>, <<"thematic">>, <<"index">>,
     <<"growth">>, <<"dividend">>, <<"multi-cap">>, <<"multicap">>}

AssetClasses == {"Equity", "Debt", "Hybrid", "Other"}

\* A classifier without the name-first debt check (step A's first test).
classify_row_no_name_check(row) ==
    LET name == Lower(Str(row.scheme_name))
        category == Lower(Str(row.scheme_category))
        combined == name \o category
    IN  IF ContainsAny(combined, exclusion_keywords) THEN "Other"
        ELSE IF ContainsAny(combined, debt_keywords) THEN "Debt"
        ELSE IF ContainsAny(combined, hybrid_keywords) THEN "Hybrid"
        ELSE IF ContainsAny(combined, equity_keywords) THEN "Equity"
        ELSE "Other"

\* A classifier that tests the debt keywords before the exclusions.
classify_row_debt_first(row) ==
    LET name == Lower(Str(row.scheme_name))
        category == Lower(Str(row.scheme_category))
        combined == name \o category
    IN  IF ContainsAny(name, name_debt_keywords) THEN "Debt"
        ELSE IF ContainsAny(combined, debt_keywords) THEN "Debt"
        ELSE IF ContainsAny(combined, exclusion_keywords) THEN "Other"
        ELSE IF ContainsAny(combined, hybrid_keywords) THEN "Hybrid"
        ELSE IF ContainsAny(combined, equity_keywords) THEN "Equity"
        ELSE "Other"

\* A classifier whose equity keywords lack "index".
classify_row_no_index(row) ==
    LET name == Lower(Str(row.scheme_name))
        category == Lower(Str(row.scheme_category))
        combined == name \o category
    IN  IF ContainsAny(combined, exclusion_keywords) THEN "Other"
        ELSE IF ContainsAny(name, name_debt_keywords) THEN "Debt"
        ELSE IF ContainsAny(combined, debt_keywords) THEN "Debt"
        ELSE IF ContainsAny(combined, hybrid_keywords) THEN "Hybrid"
        ELSE IF ContainsAny(combined, equity_keywords \ {<<"index">>})
        THEN "Equity"
        ELSE "Other"

\* _classify_row: the Asset_Class of a row, by strict priority.
classify_row(row) ==
    LET name == Lower(Str(row.scheme_name))
        category == Lower(Str(row.scheme_category))
        combined == name \o category
    IN  IF ContainsAny(combined, exclusion_keywords) THEN "Other"
        ELSE IF ContainsAny(name, name_debt_keywords) THEN "Debt"
        ELSE IF ContainsAny(combined, debt_keywords) THEN "Debt"
        ELSE IF ContainsAny(combined, hybrid_keywords) THEN "Hybrid"
        ELSE IF ContainsAny(combined, equity_keywords) THEN "Equity"
        ELSE "Other"

\* A risk grader that gives an unmatched category the grade 0.
risk_grade_unmatched_zero(category) ==
    LET c == Lower(Str(category))
    IN  IF ContainsAny(c, {<<"liquid">>, <<"overnight">>}) THEN 1
        ELSE IF ContainsAny(c, {<<"ultra", "short">>, <<"short", "duration">>,
                                <<"money", "market">>}) THEN 2
        ELSE IF ContainsAny(c, {<<"large", "cap">>, <<"flexi">>, <<"hybrid">>,
                                <<"dynamic">>, <<"bond">>}) THEN 3
        ELSE IF ContainsAny(c, {<<"mid", "cap">>, <<"small", "cap">>}) THEN 4
        ELSE IF ContainsAny(c, {<<"sectoral">>, <<"thematic">>}) THEN 5
        ELSE 0

\* _risk_grade: the Risk_Grade (1-5) of a category text.  It is applied to
\* scheme_category.astype(str), so pd.isna(category) is never true there.
risk_grade(category) ==
    LET c == Lower(Str(category))
    IN  IF ContainsAny(c, {<<"liquid">>, <<"overnight">>}) THEN 1
        ELSE IF ContainsAny(c, {<<"ultra", "short">>, <<"short", "duration">>,
                                <<"money", "market">>}) THEN 2
        ELSE IF ContainsAny(c, {<<"large", "cap">>, <<"flexi">>, <<"hybrid">>,
                                <<"dynamic">>, <<"bond">>}) THEN 3
        ELSE IF ContainsAny(c, {<<"mid", "cap">>, <<"small", "cap">>}) THEN 4
        ELSE IF ContainsAny(c, {<<"sectoral">>, <<"thematic">>}) THEN 5
        ELSE 3

\* One row with its Asset_Class and Risk_Grade columns set, and a min_sip of
\* 0 when the dataset has no min_sip column.
ClassifiedRow(row) ==
    [f \in DOMAIN row \cup {"Asset_Class", "Risk_Grade", "min_sip"} |->
        IF f = "Asset_Class" THEN classify_row(row)
        ELSE IF f = "Risk_Grade" THEN risk_grade(row.scheme_category)
        ELSE IF f \in DOMAIN row THEN row[f]
        ELSE 0]

\* _classify_funds: every row of the dataset gets both columns.
classify_funds(df) == [i \in 1..Len(df) |-> ClassifiedRow(df[i])]

(***************************************************************************)
(* Allocation (FundRecommender._compute_allocation)                        *)
(***************************************************************************)

Max(a, b) == IF a >= b THEN a ELSE b
Min(a, b) == IF a <= b THEN a ELSE b

\* A clamp that forgets the upper limit.
ClampLowerOnly(t) == Max(0, t)

\* max(0.0, min(100.0, t))
Clamp(t) == Max(0, Min(100, t))

\* The horizon texts that force 0% equity by themselves.
short_horizon_keywords == {<<"<1">>, <<"less">>, <<"1yr">>, <<"1-3">>}

\* A target that subtracts 10, not 20, for a low risk tolerance.
target_equity_pct_low10(p) ==
    LET base == 110 - p.age
        risk_tol == Lower(Str(p.risk_tolerance))
        adjusted ==
            IF Contains(risk_tol, <<"high">>)
               \/ Contains(risk_tol, <<"very", "high">>)
            THEN base + 10
            ELSE IF Contains(risk_tol, <<"low">>) THEN base - 10
            ELSE base
        horizon == Lower(Str(p.investment_horizon))
        overridden ==
            IF ContainsAny(horizon, short_horizon_keywords \cup {<<"3yr-5yr">>})
            THEN IF <<"emergency">> \in {Lower(g) : g \in p.investment_goals}
                 THEN 0
                 ELSE IF ContainsAny(horizon, short_horizon_keywords)
                 THEN 0
                 ELSE adjusted
            ELSE adjusted
    IN  Clamp(overridden)

\* The target with every risk text that is not Low, Moderate or High taken
\* as a cautious one.
target_equity_pct_unknown_cautious(p) ==
    LET base == 110 - p.age
        risk_tol == Lower(Str(p.risk_tolerance))
        adjusted ==
            IF Contains(risk_tol, <<"high">>)
               \/ Contains(risk_tol, <<"very", "high">>)
            THEN base + 10
            ELSE IF Contains(risk_tol, <<"low">>) THEN base - 20
            ELSE IF p.risk_tolerance = <<"Moderate">> THEN base
            ELSE base - 10
        horizon == Lower(Str(p.investment_horizon))
        overridden ==
            IF ContainsAny(horizon, short_horizon_keywords \cup {<<"3yr-5yr">>})
            THEN IF <<"emergency">> \in {Lower(g) : g \in p.investment_goals}
                 THEN 0
                 ELSE IF ContainsAny(horizon, short_horizon_keywords)
                 THEN 0
                 ELSE adjusted
            ELSE adjusted
    IN  Clamp(overridden)

\* target_equity_pct, in percent, before the conversion to fractions.
target_equity_pct(p) ==
    LET base == 110 - p.age
        risk_tol == Lower(Str(p.risk_tolerance))
        adjusted ==
            IF Contains(risk_tol, <<"high">>)
               \/ Contains(risk_tol, <<"very", "high">>)
            THEN base + 10
            ELSE IF Contains(risk_tol, <<"low">>) THEN base - 20
            ELSE base
        horizon == Lower(Str(p.investment_horizon))
        overridden ==
            IF ContainsAny(horizon, short_horizon_keywords \cup {<<"3yr-5yr">>})
            THEN IF <<"emergency">> \in {Lower(g) : g \in p.investment_goals}
                 THEN 0
                 ELSE IF ContainsAny(horizon, short_horizon_keywords)
                 THEN 0
                 ELSE adjusted
            ELSE adjusted
    IN  Clamp(overridden)

\* _compute_allocation: equity_pct and debt_pct, in hundredths.
compute_allocation(p) ==
    [equity_pct |-> target_equity_pct(p),
     debt_pct |-> 100 - target_equity_pct(p)]

(***************************************************************************)
(* Stage 2: the hard filter (FundRecommender._hard_filter)                 *)
(***************************************************************************)

cat_lower(row) == Lower(FillNaEmpty(row.scheme_category))

\* A horizon rule that gives a horizon under 3 years what 3-5 years gets.
HorizonKeeps_short_as_medium(p, row) ==
    LET horizon == Lower(Str(p.investment_horizon))
    IN  IF <<"emergency">> \in p.investment_goals
        THEN row.Asset_Class = "Debt" /\ row.Risk_Grade = 1
        ELSE IF ContainsAny(horizon, short_horizon_keywords
                                        \cup {<<"3-5">>, <<"3yr-5yr">>})
        THEN \/ row.Asset_Class = "Debt"
             \/ row.Asset_Class = "Hybrid"
             \/ /\ row.Asset_Class = "Equity"
                /\ ContainsAny(cat_lower(row), {<<"large">>, <<"flexi">>})
        ELSE TRUE

\* The horizon / goal rule of a request: whether it keeps a row.
HorizonKeeps(p, row) ==
    LET horizon == Lower(Str(p.investment_horizon))
    IN  IF <<"emergency">> \in p.investment_goals
        THEN row.Asset_Class = "Debt" /\ row.Risk_Grade = 1
        ELSE IF ContainsAny(horizon, short_horizon_keywords)
        THEN \/ row.Asset_Class = "Debt"
             \/ /\ row.Asset_Class = "Hybrid"
                /\ Contains(cat_lower(row), <<"arbitrage">>)
        ELSE IF ContainsAny(horizon, {<<"3-5">>, <<"3yr-5yr">>})
        THEN \/ row.Asset_Class = "Debt"
             \/ row.Asset_Class = "Hybrid"
             \/ /\ row.Asset_Class = "Equity"
                /\ ContainsAny(cat_lower(row), {<<"large">>, <<"flexi">>})
        ELSE TRUE

\* The experience rule without the keywords of small-cap schemes.
ExperienceKeeps_no_small(p, row) ==
    IF Lower(Str(p.experience)) = <<"beginner">>
    THEN ~ContainsAny(cat_lower(row), {<<"sectoral">>, <<"thematic">>})
    ELSE TRUE

\* The experience rule: whether it keeps a row.
ExperienceKeeps(p, row) ==
    IF Lower(Str(p.experience)) = <<"beginner">>
    THEN ~ContainsAny(cat_lower(row),
                      {<<"sectoral">>, <<"thematic">>, <<"small", "cap">>,
                       <<"small">>})
    ELSE TRUE

\* The viability rules without the test of min_sip.
ViabilityKeeps_aum_only(p, row) == row.aum_cr >= 100

\* The viability rules without the one on the AUM.
ViabilityKeeps_sip_only(p, row) == row.min_sip <= p.monthly_sip

\* The viability rules: whether they keep a row.
ViabilityKeeps(p, row) ==
    /\ row.aum_cr >= 100
    /\ row.min_sip <= p.monthly_sip

\* _hard_filter: the rows of the catalog that pass every rule.
hard_filter(df, p) ==
    LET Keep(row) == /\ HorizonKeeps(p, row)
                     /\ ExperienceKeeps(p, row)
                     /\ ViabilityKeeps(p, row)
    IN  SelectSeq(df, Keep)

(***************************************************************************)
(* Stage 3: scoring within the asset class                                 *)
(* (FundRecommender._score_funds_within_class)                             *)
(*                                                                         *)
(* Columns are integers: estimated_ter in hundredths of a percent point,   *)
(* cagr_3y in percent, sharpe_1y_annualized in tenths, aum_cr in crores.   *)
(* A z-score does not change when its column is rescaled, so each raw      *)
(* component is kept in the unit that makes it an integer.  Z-scores are   *)
(* in hundredths, Score in thousandths, Score_Normalized in tenths.        *)
(***************************************************************************)

\* The missing number (NaN) of a numeric column.
NumNaN == 0 - 1000000

RECURSIVE ISqrtIn(_, _, _)
\* The largest r in lo..hi with r * r <= n.
ISqrtIn(n, lo, hi) ==
    IF lo >= hi THEN lo
    ELSE LET mid == (lo + hi + 1) \div 2
         IN  IF mid * mid <= n THEN ISqrtIn(n, mid, hi)
             ELSE ISqrtIn(n, lo, mid - 1)

\* floor(sqrt(n)) for 0 <= n < 2^31.
ISqrt(n) == ISqrtIn(n, 0, 46340)

RECURSIVE SumSeq(_)
SumSeq(xs) == IF xs = <<>> THEN 0 ELSE Head(xs) + SumSeq(Tail(xs))

\* np.log(aum) in tenths, for the aum_cr values of the catalog.
LogAum(aum) ==
    CASE aum = 100 -> 46
      [] aum = 500 -> 62
      [] aum = 1000 -> 69
      [] aum = 2000 -> 76
      [] aum = 5000 -> 85

\* The performance component of a row as the fraction num / den: the Sharpe
\* ratio (the cell is in tenths) when the dataset has the column, a missing
\* cell counting as 0.0; else cagr_3y (the cell is in hundredths) over 0.15.
Performance(row) ==
    IF "sharpe_1y_annualized" \in DOMAIN row
    THEN [num |-> IF row.sharpe_1y_annualized = NumNaN THEN 0
                  ELSE row.sharpe_1y_annualized,
          den |-> 10]
    ELSE [num |-> row.cagr_3y, den |-> 15]

\* The performance component in the unit of its column: every row of a frame
\* has the same den, and a z-score does not depend on the unit.
SharpeRaw(row) == Performance(row).num

\* The cost component: 1 / (ter + 1e-9), in tenths.
InvTerRaw(row) == 1000 \div row.estimated_ter

\* The trust component: log(aum.clip(lower=1)).
LogAumRaw(row) == LogAum(row.aum_cr)

\* _z_score_within_class for the values xs of one class: the z-score of
\* each, in hundredths; NaN for a class of one row (its std is NaN), 0 for a
\* class without spread (the difference to the mean over 1e-9).
ZScores(xs) ==
    LET n == Len(xs)
        total == SumSeq(xs)
        d == [i \in 1..n |-> n * xs[i] - total]
        q == SumSeq([i \in 1..n |-> d[i] * d[i]])
    IN  [i \in 1..n |->
            IF n = 1 THEN NumNaN
            ELSE IF q = 0 THEN 0
            ELSE LET z == ISqrt((d[i] * d[i] * (n - 1) * 10000) \div q)
                 IN  IF d[i] < 0 THEN 0 - z ELSE z]

\* The classes of the rows of df.
ClassesOf(df) == {df[i].Asset_Class : i \in 1..Len(df)}

\* groupby('Asset_Class').apply(...) gives one wide row per class, not a
\* column, when every class returns the same index: that is when the
\* filtered set has one class only.  Setting a column to it raises
\* ValueError when the class has two rows or more.
ScoringRaises(df) == Cardinality(ClassesOf(df)) = 1 /\ Len(df) >= 2

\* The Score of each row of df, in thousandths; NaN when a z-score is.
Scores(df) ==
    LET Class(c) == SelectSeq(df, LAMBDA r : r.Asset_Class = c)
        \* the position of row i of df within its class
        PosInClass(i) ==
            Cardinality({j \in 1..i : df[j].Asset_Class = df[i].Asset_Class})
        Z(Raw(_), i) ==
            LET rows == Class(df[i].Asset_Class)
            IN  ZScores([j \in 1..Len(rows) |-> Raw(rows[j])])[PosInClass(i)]
    IN  [i \in 1..Len(df) |->
            IF Cardinality(ClassesOf(df)) = 1 \/ Z(SharpeRaw, i) = NumNaN
            THEN NumNaN
            ELSE 4 * Z(SharpeRaw, i) + 4 * Z(InvTerRaw, i)
                 + 2 * Z(LogAumRaw, i)]

\* Score_Normalized of each row, rounded to one decimal, in tenths: the
\* min-max rescale of Score over the whole filtered set, 50.0 for all rows
\* when the scores have no spread or are all NaN.
ScoresNormalized(scores) ==
    LET known == {scores[i] : i \in 1..Len(scores)} \ {NumNaN}
        lo == CHOOSE x \in known : \A y \in known : x <= y
        hi == CHOOSE x \in known : \A y \in known : x >= y
    IN  [i \in 1..Len(scores) |->
            IF known = {} THEN 500
            ELSE IF ~(hi > lo) THEN 500
            ELSE IF scores[i] = NumNaN THEN NumNaN
            ELSE (2000 * (scores[i] - lo) + (hi - lo)) \div (2 * (hi - lo))]

\* _score_funds_within_class: df with the Score and Score_Normalized columns.
score_funds_within_class(df) ==
    LET scores == Scores(df)
        normalized == ScoresNormalized(scores)
    IN  [i \in 1..Len(df) |->
            [f \in DOMAIN df[i] \cup {"Score", "Score_Normalized"} |->
                IF f = "Score" THEN scores[i]
                ELSE IF f = "Score_Normalized" THEN normalized[i]
                ELSE df[i][f]]]

(***************************************************************************)
(* Stage 4: selection (FundRecommender.recommend)                          *)
(***************************************************************************)

RECURSIVE SortByScore(_)
\* The rows by descending Score, equal scores in their order in df, rows
\* without a Score (NaN) last.
SortByScore(df) ==
    IF df = <<>> THEN <<>>
    ELSE LET Better(i, j) ==
                 \/ df[i].Score # NumNaN /\ df[j].Score = NumNaN
                 \/ df[i].Score # NumNaN /\ df[j].Score # NumNaN
                    /\ df[i].Score > df[j].Score
             best == CHOOSE i \in 1..Len(df) :
                        /\ \A j \in 1..Len(df) : ~Better(j, i)
                        /\ \A j \in 1..(i - 1) : Better(i, j)
             rest == [j \in 1..(Len(df) - 1) |->
                        IF j < best THEN df[j] ELSE df[j + 1]]
         IN  <<df[best]>> \o SortByScore(rest)

RECURSIVE SortTiesReversed(_)
\* The rows by descending Score, equal scores in the reverse of their order
\* in df: what a sort that is not stable may give.
SortTiesReversed(df) ==
    IF df = <<>> THEN <<>>
    ELSE LET Better(i, j) ==
                 \/ df[i].Score # NumNaN /\ df[j].Score = NumNaN
                 \/ df[i].Score # NumNaN /\ df[j].Score # NumNaN
                    /\ df[i].Score > df[j].Score
             best == CHOOSE i \in 1..Len(df) :
                        /\ \A j \in 1..Len(df) : ~Better(j, i)
                        /\ \A j \in (i + 1)..Len(df) : Better(i, j)
             rest == [j \in 1..(Len(df) - 1) |->
                        IF j < best THEN df[j] ELSE df[j + 1]]
         IN  <<df[best]>> \o SortTiesReversed(rest)

\* Series.sort_values(ascending=False): the default kind is quicksort, which
\* numpy does not promise to be stable.
SortValues(df) ==
    IF stable_sort THEN SortByScore(df) ELSE SortTiesReversed(df)

\* nlargest that leaves out the rows without a Score.
NLargest_drop_nan(df, c, n) ==
    LET sorted == SortByScore(SelectSeq(df, LAMBDA r :
                      r.Asset_Class = c /\ r.Score # NumNaN))
    IN  SubSeq(sorted, 1, Min(n, Len(sorted)))

\* df[df['Asset_Class'] == c].nlargest(n, 'Score')
\* With n >= len(df) nlargest returns sort_values().head(n); otherwise it
\* takes the n largest with a mergesort, which keeps equal scores in order.
NLargest(df, c, n) ==
    LET rows == SelectSeq(df, LAMBDA r : r.Asset_Class = c)
        sorted == IF n >= Len(rows) THEN SortValues(rows)
                  ELSE SortByScore(rows)
    IN  SubSeq(sorted, 1, Min(n, Len(sorted)))

\* The fund houses _explain_fund counts as top AMCs.
top_amcs ==
    {<<"SBI">>, <<"ICICI">>, <<"HDFC">>, <<"Nippon">>, <<"Kotak">>,
     <<"Aditya", "Birla">>, <<"UTI">>, <<"Axis">>, <<"Mirae">>, <<"DSP">>}

\* The fallback of _explain_fund.
GenericReason == <<"Strong fundamental match">>

\* The reasons of _explain_fund with the cost fragment before the AUM
\* fragment.
reasons_cost_first(row) ==
    (IF row.estimated_ter # NumNaN /\ row.estimated_ter < 50
     THEN <<"Low expense ratio">>
     ELSE IF row.estimated_ter # NumNaN /\ row.estimated_ter < 100
     THEN <<"Reasonable costs">>
     ELSE <<>>)
    \o (IF row.aum_cr >= 1000 THEN <<"Large AUM (stability)">>
        ELSE IF row.aum_cr >= 100 THEN <<"Healthy AUM">>
        ELSE <<>>)
    \o (IF row.cagr_3y > 15 THEN <<"Strong 3Y returns">> ELSE <<>>)
    \o (IF \E amc \in top_amcs : Contains(row.fund_house, amc)
        THEN <<"Top-10 AMC">> ELSE <<>>)
    \o (IF Contains(Lower(Str(row.plan)), <<"direct">>)
        THEN <<"Direct Plan (lower fees)">> ELSE <<>>)

\* The list reasons of _explain_fund, for a row with a fund_house:
\* aum_cr is in crores, estimated_ter in hundredths, cagr_3y in hundredths;
\* a comparison with a missing number (NaN) is false.
reasons(row) ==
    (IF row.aum_cr >= 1000 THEN <<"Large AUM (stability)">>
     ELSE IF row.aum_cr >= 100 THEN <<"Healthy AUM">>
     ELSE <<>>)
    \o (IF row.estimated_ter # NumNaN /\ row.estimated_ter < 50
        THEN <<"Low expense ratio">>
        ELSE IF row.estimated_ter # NumNaN /\ row.estimated_ter < 100
        THEN <<"Reasonable costs">>
        ELSE <<>>)
    \o (IF row.cagr_3y > 15 THEN <<"Strong 3Y returns">> ELSE <<>>)
    \o (IF \E amc \in top_amcs : Contains(row.fund_house, amc)
        THEN <<"Top-10 AMC">> ELSE <<>>)
    \o (IF Contains(Lower(Str(row.plan)), <<"direct">>)
        THEN <<"Direct Plan (lower fees)">> ELSE <<>>)

\* What _explain_fund returns: the fragments it joins with " • ", in their
\* order, or the fallback text.
explain_fund(row) ==
    IF reasons(row) = <<>> THEN GenericReason ELSE reasons(row)

\* One entry of the returned list.
Rec(rank, row) ==
    [rank |-> rank,
     asset_class |-> row.Asset_Class,
     scheme_code |-> row.scheme_code,
     score |-> row.Score_Normalized,
     reason |-> explain_fund(row)]

\* The selection with two Debt rows whatever the allocation.
SelectedRows_two_debt(df_scored, allocation) ==
    LET equity_funds ==
            IF allocation.equity_pct > 1 THEN NLargest(df_scored, "Equity", 3)
            ELSE <<>>
        debt_funds == NLargest(df_scored, "Debt", 2)
    IN  equity_funds \o debt_funds

\* The rows recommend() selects, in the order it selects them: the Equity
\* rows when the allocation has equity, then the Debt rows.
SelectedRows(df_scored, allocation) ==
    LET equity_funds ==
            IF allocation.equity_pct > 1 THEN NLargest(df_scored, "Equity", 3)
            ELSE <<>>
        debt_count == IF allocation.equity_pct > 1 THEN 2 ELSE 3
        debt_funds == NLargest(df_scored, "Debt", debt_count)
    IN  equity_funds \o debt_funds

\* The list recommend() builds before the cut to top_n.  An Equity entry has
\* the rank i of its loop.  A Debt entry has len(recommendations) + i, with
\* the list as long as it is when the entry is built: the entries before it,
\* the Debt entries of the same loop included, plus the index i of its loop.
Selected(df_scored, allocation) ==
    LET rows == SelectedRows(df_scored, allocation)
        equity_count ==
            Cardinality({i \in 1..Len(rows) : rows[i].Asset_Class = "Equity"})
    IN  [i \in 1..Len(rows) |->
            IF rows[i].Asset_Class = "Equity" THEN Rec(i, rows[i])
            ELSE Rec((i - 1) + (i - equity_count), rows[i])]

\* _explain_fund raises TypeError for a row without a fund_house: the cell
\* is the float NaN, and "amc in row['fund_house']" needs a text.
ExplainRaises(row) == row.fund_house = NaN

\* The list without the cut to top_n.
Truncate_never(recs, n) == recs

\* recommendations[:top_n], for top_n >= 0.
Truncate(recs, n) == SubSeq(recs, 1, Min(n, Len(recs)))

(***************************************************************************)
(* Loading (FundRecommender.__init__, _validate_dataset)                   *)
(***************************************************************************)

None == "none"

\* A checkpoint file that does not exist.
NoCheckpoint == [exists |-> FALSE, last_processed |-> 0]

\* An output file that does not exist.
NoFile == [exists |-> FALSE, rows |-> <<>>]

\* The columns _validate_dataset requires.
required_cols ==
    {"scheme_code", "scheme_name", "fund_house", "scheme_category", "plan",
     "cagr_3y"}

\* The feature columns _validate_dataset creates with .str.contains when the
\* dataset lacks them, each with the text column it reads.  (direct_plan is
\* created by a comparison, which no column makes fail.)
FeatureSources ==
    [amc_reputation |-> "fund_house", debt_score |-> "scheme_category",
     equity_score |-> "scheme_category", hybrid_score |-> "scheme_category",
     category_quality |-> "scheme_category"]

\* The feature columns of a dataset that went through feature engineering.
FeatureColumns == DOMAIN FeatureSources \cup {"direct_plan"}

\* A text column without one text in it: read_csv gives it the dtype
\* float64, and the .str accessor of such a column raises AttributeError.
\* (A dataset without rows has columns of dtype object.)
NoTextIn(df, col) ==
    /\ Len(df) >= 1
    /\ \A i \in 1..Len(df) : df[i][col] = NaN

\* The exception _validate_dataset raises for a dataset with the columns
\* cols and the rows df, None when it returns.
validate_error(cols, df) ==
    IF ~(required_cols \subseteq cols) THEN "ValueError"
    ELSE IF \E f \in DOMAIN FeatureSources :
                f \notin cols /\ NoTextIn(df, FeatureSources[f])
    THEN "AttributeError"
    ELSE IF "cagr_5y" \notin cols THEN "KeyError"
    ELSE None

\* The value of the numeric columns _validate_dataset creates when the
\* dataset has neither them nor the column that stands in for them
\* (estimated_ter 1.0 is 100 hundredths).
ColumnDefaults == [aum_cr |-> 100, estimated_ter |-> 100, nav |-> 100]

\* The column that stands in for a missing column, when the dataset has it.
ColumnFallbacks == [nav |-> "latest_nav", estimated_ter |-> "expense_ratio"]

\* The value fillna gives a missing cell of each numeric column.
FillValues ==
    [cagr_3y |-> 0, cagr_5y |-> 0, aum_cr |-> 100, estimated_ter |-> 100,
     nav |-> 100]

\* _validate_dataset, when it raises nothing: the missing numeric columns are
\* created, the rows without a scheme_code, scheme_name or cagr_3y are
\* dropped, and the missing cells of the numeric columns are filled.
validate_dataset(df) ==
    LET WithColumns(row) ==
            [f \in DOMAIN row \cup DOMAIN ColumnDefaults |->
                IF f \in DOMAIN row THEN row[f]
                ELSE IF f \in DOMAIN ColumnFallbacks
                        /\ ColumnFallbacks[f] \in DOMAIN row
                THEN row[ColumnFallbacks[f]]
                ELSE ColumnDefaults[f]]
        Complete(row) ==
            /\ row.scheme_code # NumNaN
            /\ row.scheme_name # NaN
            /\ row.cagr_3y # NumNaN
        Filled(row) ==
            [f \in DOMAIN row |->
                IF f \in DOMAIN FillValues
                THEN IF row[f] = NumNaN THEN FillValues[f] ELSE row[f]
                ELSE row[f]]
        kept == SelectSeq([i \in 1..Len(df) |-> WithColumns(df[i])], Complete)
    IN  [i \in 1..Len(kept) |-> Filled(kept[i])]

(***************************************************************************)
(* Inputs                                                                  *)
(***************************************************************************)

\* The longest scheme name, in words, of the classification runs.
MaxNameWords == 3
\* The lowest age of the allocation runs is 0 - AgeBelow, the highest MaxAge.
AgeBelow == 3
MaxAge == 125

\* All texts of at most n words over the words W.
Texts(W, n) == UNION {[1..k -> W] : k \in 0..n}

NameWords ==
    {"Gold", "SILVER", "Bond", "Index", "SDL", "G-Sec", "G-Security",
     "Bharat", "PSU", "Fund"}

SchemeNames == Texts(NameWords, MaxNameWords) \ {<<>>}

\* scheme_category values: the categories of the AMFI scheme list, short
\* free texts, the empty text and the missing cell.
SchemeCategories ==
    {<<"Debt", "Scheme", "-", "Liquid", "Fund">>,
     <<"Debt", "Scheme", "-", "Overnight", "Fund">>,
     <<"Debt", "Scheme", "-", "Corporate", "Bond", "Fund">>,
     <<"Debt", "Scheme", "-", "Ultra", "Short", "Duration", "Fund">>,
     <<"Debt", "Scheme", "-", "Banking", "and", "PSU", "Fund">>,
     <<"Debt", "Scheme", "-", "Gilt", "Fund">>,
     <<"Debt", "Scheme", "-", "Money", "Market", "Fund">>,
     <<"Debt", "Scheme", "-", "Dynamic", "Bond">>,
     <<"Equity", "Scheme", "-", "Large", "Cap", "Fund">>,
     <<"Equity", "Scheme", "-", "Mid", "Cap", "Fund">>,
     <<"Equity", "Scheme", "-", "Large", "&", "Mid", "Cap", "Fund">>,
     <<"Equity", "Scheme", "-", "Small", "Cap", "Fund">>,
     <<"Equity", "Scheme", "-", "Flexi", "Cap", "Fund">>,
     <<"Equity", "Scheme", "-", "Sectoral/", "Thematic">>,
     <<"Equity", "Scheme", "-", "Multi", "Cap", "Fund">>,
     <<"Hybrid", "Scheme", "-", "Arbitrage", "Fund">>,
     <<"Hybrid", "Scheme", "-", "Balanced", "Advantage">>,
     <<"Other", "Scheme", "-", "Gold", "ETF">>,
     <<"Other", "Scheme", "-", "Index", "Funds">>,
     <<"Other", "Scheme", "-", "FoF", "Domestic">>,
     <<"Other", "Scheme", "-", "Other", "ETF">>,
     <<"Income">>, <<"Growth">>, <<"thematic">>, <<"small">>, <<"SILVER">>,
     <<>>, NaN}

RiskTolerances ==
    {<<"Low">>, <<"Moderate">>, <<"High">>, <<"Very", "High">>,
     <<"Very", "Low">>, <<"Medium">>, <<"moderate">>, <<"Highest">>}

Horizons ==
    {<<"<1yr">>, <<"1-3yr">>, <<"3-5yr">>, <<"5-10yr">>, <<"10+yr">>,
     <<"3yr-5yr">>}

GoalTags == {<<"Emergency">>, <<"emergency">>, <<"Retirement">>}

\* The profiles of the allocation runs: every age, risk, horizon and goals.
AllocProfiles ==
    [user_id : {"u1"},
     age : (0 - AgeBelow)..MaxAge,
     monthly_sip : {5000},
     risk_tolerance : RiskTolerances,
     investment_horizon : Horizons,
     investment_goals : SUBSET GoalTags,
     experience : {<<"Intermediate">>}]

\* The datasets of the classification runs: a scheme of any name and
\* category, and a second scheme of the same name and category whose other
\* columns differ.
ClassifyDatasets ==
    {<<[scheme_code |-> 1, scheme_name |-> n, scheme_category |-> c,
        fund_house |-> <<"HDFC">>, plan |-> <<"Direct">>,
        cagr_3y |-> 12, cagr_5y |-> 10, aum_cr |-> 1000],
       [scheme_code |-> 2, scheme_name |-> n, scheme_category |-> c,
        fund_house |-> <<"SBI">>, plan |-> <<"Regular">>,
        cagr_3y |-> 8, cagr_5y |-> NumNaN, aum_cr |-> NumNaN]>> :
        n \in SchemeNames \cup {NaN}, c \in SchemeCategories}

\* The columns of the datasets of the classification runs.
ClassifyColumns == required_cols \cup {"cagr_5y", "aum_cr"} \cup FeatureColumns

\* The most rows a dataset of the request runs has.
MaxRows == 3

\* The schemes the datasets of the request runs are drawn from.
SchemePool ==
    <<[scheme_code |-> 101,
       fund_house |-> <<"HDFC">>, plan |-> <<"Direct">>,
       scheme_name |-> <<"HDFC", "Liquid", "Fund">>,
       scheme_category |-> <<"Debt", "Scheme", "-", "Liquid", "Fund">>,
       aum_cr |-> 5000, min_sip |-> 500, estimated_ter |-> 20,
       cagr_3y |-> 6, cagr_5y |-> 6, sharpe_1y_annualized |-> 12],
      [scheme_code |-> 102,
       fund_house |-> <<"ICICI">>, plan |-> <<"Direct">>,
       scheme_name |-> <<"ICICI", "Corporate", "Bond", "Fund">>,
       scheme_category |-> <<"Debt", "Scheme", "-", "Corporate", "Bond", "Fund">>,
       aum_cr |-> 2000, min_sip |-> 1000, estimated_ter |-> 50,
       cagr_3y |-> 8, cagr_5y |-> 8, sharpe_1y_annualized |-> 9],
      [scheme_code |-> 103,
       fund_house |-> <<"SBI">>, plan |-> <<"Direct">>,
       scheme_name |-> <<"SBI", "Large", "Cap", "Fund">>,
       scheme_category |-> <<"Equity", "Scheme", "-", "Large", "Cap", "Fund">>,
       aum_cr |-> 2000, min_sip |-> 500, estimated_ter |-> 50,
       cagr_3y |-> 16, cagr_5y |-> 16, sharpe_1y_annualized |-> 15],
      [scheme_code |-> 104,
       fund_house |-> <<"Nippon">>, plan |-> <<"Direct">>,
       scheme_name |-> <<"Nippon", "Small", "Cap", "Fund">>,
       scheme_category |-> <<"Equity", "Scheme", "-", "Small", "Cap", "Fund">>,
       aum_cr |-> 1000, min_sip |-> 500, estimated_ter |-> 100,
       cagr_3y |-> 22, cagr_5y |-> 22, sharpe_1y_annualized |-> 11],
      [scheme_code |-> 105,
       fund_house |-> <<"Kotak">>, plan |-> <<"Direct">>,
       scheme_name |-> <<"Kotak", "Arbitrage", "Fund">>,
       scheme_category |-> <<"Hybrid", "Scheme", "-", "Arbitrage", "Fund">>,
       aum_cr |-> 500, min_sip |-> 500, estimated_ter |-> 40,
       cagr_3y |-> 7, cagr_5y |-> 7, sharpe_1y_annualized |-> 10],
      [scheme_code |-> 106,
       fund_house |-> <<"SBI">>, plan |-> <<"Direct">>,
       scheme_name |-> <<"Gold", "ETF">>,
       scheme_category |-> <<"Other", "Scheme", "-", "Gold", "ETF">>,
       aum_cr |-> 1000, min_sip |-> 500, estimated_ter |-> 50,
       cagr_3y |-> 12, cagr_5y |-> 12, sharpe_1y_annualized |-> 8],
      [scheme_code |-> 107,
       fund_house |-> <<"Axis">>, plan |-> <<"Direct">>,
       scheme_name |-> <<"Axis", "Overnight", "Fund">>,
       scheme_category |-> <<"Debt", "Scheme", "-", "Overnight", "Fund">>,
       aum_cr |-> 50, min_sip |-> 500, estimated_ter |-> 10,
       cagr_3y |-> 5, cagr_5y |-> 5, sharpe_1y_annualized |-> 14],
      [scheme_code |-> 108,
       fund_house |-> <<"Quant">>, plan |-> <<"Direct">>,
       scheme_name |-> <<"Quant", "Liquid", "Fund">>,
       scheme_category |-> <<"Debt", "Scheme", "-", "Liquid", "Fund">>,
       aum_cr |-> 500, min_sip |-> 5000, estimated_ter |-> 25,
       cagr_3y |-> 6, cagr_5y |-> 6, sharpe_1y_annualized |-> 10]>>

\* The columns of the datasets of the request runs.
PoolColumns ==
    required_cols
        \cup {"aum_cr", "min_sip", "estimated_ter", "cagr_5y",
              "sharpe_1y_annualized"}
        \cup FeatureColumns

\* The rows of the pool at the positions idx, in the pool's order.
RECURSIVE PoolRows(_, _)
PoolRows(idx, from) ==
    IF from > Len(SchemePool) THEN <<>>
    ELSE IF from \in idx
         THEN <<SchemePool[from]>> \o PoolRows(idx, from + 1)
         ELSE PoolRows(idx, from + 1)

\* More schemes: a hybrid scheme and three equity schemes, the last with the
\* scoring columns of scheme 103.
ExtraSchemes ==
    <<[scheme_code |-> 109,
       fund_house |-> <<"HDFC">>, plan |-> <<"Direct">>,
       scheme_name |-> <<"HDFC", "Balanced", "Advantage", "Fund">>,
       scheme_category |-> <<"Hybrid", "Scheme", "-", "Balanced", "Advantage">>,
       aum_cr |-> 5000, min_sip |-> 500, estimated_ter |-> 100,
       cagr_3y |-> 14, cagr_5y |-> 14, sharpe_1y_annualized |-> 13],
      [scheme_code |-> 110,
       fund_house |-> <<"Kotak">>, plan |-> <<"Direct">>,
       scheme_name |-> <<"Kotak", "Flexi", "Cap", "Fund">>,
       scheme_category |-> <<"Equity", "Scheme", "-", "Flexi", "Cap", "Fund">>,
       aum_cr |-> 5000, min_sip |-> 500, estimated_ter |-> 40,
       cagr_3y |-> 15, cagr_5y |-> 15, sharpe_1y_annualized |-> 14],
      [scheme_code |-> 111,
       fund_house |-> <<"Axis">>, plan |-> <<"Direct">>,
       scheme_name |-> <<"Axis", "Mid", "Cap", "Fund">>,
       scheme_category |-> <<"Equity", "Scheme", "-", "Mid", "Cap", "Fund">>,
       aum_cr |-> 1000, min_sip |-> 500, estimated_ter |-> 125,
       cagr_3y |-> 18, cagr_5y |-> 18, sharpe_1y_annualized |-> 12],
      [scheme_code |-> 112,
       fund_house |-> <<"ICICI">>, plan |-> <<"Direct">>,
       scheme_name |-> <<"ICICI", "Large", "Cap", "Fund">>,
       scheme_category |-> <<"Equity", "Scheme", "-", "Large", "Cap", "Fund">>,
       aum_cr |-> 2000, min_sip |-> 500, estimated_ter |-> 50,
       cagr_3y |-> 16, cagr_5y |-> 16, sharpe_1y_annualized |-> 15]>>

\* The whole pool and the extra schemes: five equity schemes.
LargeCatalog == SchemePool \o ExtraSchemes

\* A dataset file in which the row of scheme 101 occurs twice.
DuplicateCatalog == <<SchemePool[1], SchemePool[3], SchemePool[1]>>

\* A dataset in which scheme 101 has no fund_house.
NoHouseCatalog ==
    <<[SchemePool[1] EXCEPT !.fund_house = NaN], SchemePool[3]>>

\* The datasets of the request runs: up to MaxRows schemes of the pool, and
\* the three datasets above.
Datasets ==
    {PoolRows(idx, 1) :
        idx \in {x \in SUBSET (1..Len(SchemePool)) : Cardinality(x) <= MaxRows}}
    \cup {LargeCatalog, DuplicateCatalog, NoHouseCatalog}

\* Datasets with the equity schemes 103 and 112, whose scoring columns are
\* equal, in both orders, with up to two more equity schemes.
SelectDatasets ==
    {<<SchemePool[1], SchemePool[2], SchemePool[3], ExtraSchemes[4]>>,
     <<SchemePool[1], SchemePool[2], ExtraSchemes[4], SchemePool[3]>>,
     <<SchemePool[1], SchemePool[3], ExtraSchemes[4], ExtraSchemes[2]>>,
     <<SchemePool[1], SchemePool[2], SchemePool[8], ExtraSchemes[2],
       SchemePool[3], ExtraSchemes[4], ExtraSchemes[3]>>,
     LargeCatalog}

\* The catalogs of the scoring runs: two classes of two rows, classes of one
\* row, one class only, one row only, and a class without spread.
ScoreCatalogs ==
    {<<SchemePool[1], SchemePool[2], SchemePool[3], SchemePool[4]>>,
     <<SchemePool[1], SchemePool[2], SchemePool[3]>>,
     <<SchemePool[1], SchemePool[3]>>,
     <<SchemePool[3], SchemePool[4]>>,
     <<SchemePool[1]>>,
     <<SchemePool[1], SchemePool[2], SchemePool[3], ExtraSchemes[4]>>}

\* The column sets of the scoring runs: with and without the Sharpe column.
ScoreColumnSets == {PoolColumns, PoolColumns \ {"sharpe_1y_annualized"}}

\* The datasets of the scoring runs with the columns cols: a catalog as it
\* is or, when the dataset has the Sharpe column, with one empty Sharpe cell.
ScoreDatasets(cols) ==
    IF "sharpe_1y_annualized" \in cols
    THEN ScoreCatalogs
         \cup {[df EXCEPT ![i].sharpe_1y_annualized = NumNaN] :
                   df \in ScoreCatalogs, i \in 1..MaxRows}
    ELSE {[i \in 1..Len(df) |->
              [c \in DOMAIN df[i] \ {"sharpe_1y_annualized"} |-> df[i][c]]] :
            df \in ScoreCatalogs}

\* The rows of the direct calls of _explain_fund: the numbers on both sides
\* of each threshold (aum_cr 100 and 1000, estimated_ter 0.5 and 1.0,
\* cagr_3y 0.15), fund houses in and out of the AMC list and a missing one,
\* the plans of the dataset builders and a missing one.
ExplainRows ==
    [aum_cr : {50, 100, 999, 1000},
     estimated_ter : {49, 50, 99, 100},
     cagr_3y : {0, 15, 16},
     fund_house : {<<"HDFC">>, <<"Quant">>,
                   <<"Aditya", "Birla", "Sun", "Life">>, <<"sbi">>, NaN},
     plan : {<<"Direct">>, <<"Regular">>, NaN}]

\* The iterations between two checkpoints of process_all_schemes.
CheckpointEvery == 100

\* The most schemes of an input list of the fetcher.
MaxSchemes == 201

\* The input lists of the fetcher, by scheme code: one scheme, as many as
\* one checkpoint takes, and MaxSchemes of them.
FetchLists ==
    {[i \in 1..n |-> i] : n \in {1, CheckpointEvery, MaxSchemes}}

\* The most rows of an input list of the dataset builder.
MaxListLen == 4

\* The scheme codes of the input lists of the dataset builder.
ListCodes == {1, 2, 3}

\* The input lists of the dataset builder, by scheme code: a code may occur
\* more than once.
BuildLists ==
    UNION {[1..n -> ListCodes] : n \in 0..MaxListLen}

\* The values of --save_every.
SaveEverys == {1, 2, 3}

\* The largest top_n of the requests of the selection runs.
MaxTopN == 10

\* The profiles of the request runs.
Profiles ==
    [user_id : {"u1"},
     age : {30, 89},
     monthly_sip : {500, 5000},
     risk_tolerance : {<<"Low">>, <<"Moderate">>},
     investment_horizon : {<<"1-3yr">>, <<"3-5yr">>, <<"10+yr">>},
     investment_goals : {{<<"Retirement">>}, {<<"Emergency">>},
                         {<<"emergency">>}},
     experience : {<<"Beginner">>, <<"Intermediate">>}]

\* The profiles of the selection runs.
SelectProfiles ==
    [user_id : {"u1"},
     age : {30, 89},
     monthly_sip : {500},
     risk_tolerance : {<<"Low">>, <<"High">>},
     investment_horizon : {<<"1-3yr">>, <<"10+yr">>},
     investment_goals : {{<<"Retirement">>}, {<<"Emergency">>}},
     experience : {<<"Beginner">>, <<"Intermediate">>}]

\* The columns a dataset may have or lack besides the required ones.
OptionalColumns ==
    {"nav", "latest_nav", "estimated_ter", "expense_ratio", "aum_cr",
     "cagr_5y", "min_sip", "sharpe_1y_annualized"}

\* The text columns of a dataset; the other columns are numeric.
TextColumns == {"scheme_name", "fund_house", "scheme_category", "plan"}

\* The columns of the datasets of the loading runs: the required columns or
\* all but one of them, any of the optional columns, and the feature columns
\* or none of them.
LoadColumnSets ==
    {(required_cols \ absent) \cup optional \cup features :
        absent \in {{}} \cup {{c} : c \in required_cols},
        optional \in SUBSET OptionalColumns,
        features \in {{}, FeatureColumns}}

\* A scheme with a value in every column (nav 250.0, latest_nav 240.0,
\* estimated_ter 0.2, expense_ratio 0.3).
FullScheme ==
    [scheme_code |-> 201,
     fund_house |-> <<"HDFC">>, plan |-> <<"Direct">>,
     scheme_name |-> <<"HDFC", "Liquid", "Fund">>,
     scheme_category |-> <<"Debt", "Scheme", "-", "Liquid", "Fund">>,
     nav |-> 250, latest_nav |-> 240,
     estimated_ter |-> 20, expense_ratio |-> 30,
     aum_cr |-> 5000, min_sip |-> 500,
     cagr_3y |-> 6, cagr_5y |-> 7, sharpe_1y_annualized |-> 12]

\* The most cells of a row of the loading runs that are empty.
MaxEmptyCells == 1

\* The row of FullScheme in a dataset with the columns cols, the cells of
\* the columns in empty being empty.
LoadRow(cols, code, empty) ==
    [c \in cols \cap DOMAIN FullScheme |->
        IF c \in empty THEN IF c \in TextColumns THEN NaN ELSE NumNaN
        ELSE IF c = "scheme_code" THEN code
        ELSE FullScheme[c]]

\* The datasets of the loading runs with the columns cols: no row, a row
\* with up to MaxEmptyCells empty cells, and such a row before a full row.
LoadDatasets(cols) ==
    LET first == {LoadRow(cols, 201, empty) :
                    empty \in {e \in SUBSET (cols \cap DOMAIN FullScheme) :
                                  Cardinality(e) <= MaxEmptyCells}}
    IN  {<<>>}
        \cup {<<r>> : r \in first}
        \cup {<<r, LoadRow(cols, 202, {})>> : r \in first}

\* The fields get_recommendations requires in the body of a request.
required_fields ==
    {"user_id", "age", "annual_income", "monthly_sip", "risk_tolerance",
     "investment_horizon", "investment_goals", "experience"}

\* int(x) of the age values of the bodies; int() raises ValueError for a
\* text that is no number.
IntOf == [a \in {"30", "89"} |-> IF a = "30" THEN 30 ELSE 89]

\* The bodies of the requests to the API: all required fields or all but
\* one, an age that is a number or not, and the optional top_n and
\* min_aum_cr given or not (a set with the value, or the empty set).
Bodies ==
    [fields : {required_fields}
                \cup {required_fields \ {f} : f \in required_fields},
     user_id : {"u1"},
     age : DOMAIN IntOf \cup {"thirty"},
     monthly_sip : {5000},
     risk_tolerance : {<<"Moderate">>},
     investment_horizon : {<<"1-3yr">>, <<"10+yr">>},
     investment_goals : {{<<"Retirement">>}},
     experience : {<<"Intermediate">>},
     top_n : {{}, {2}},
     min_aum_cr : {{}, {50}, {100}}]

\* The columns and rows of the datasets the API starts over: the pool's
\* columns, or these without cagr_5y (the engine does not load).
ApiColumnSets == {PoolColumns, PoolColumns \ {"cagr_5y"}}
ApiDatasets == {PoolRows({1, 3, 6}, 1), PoolRows({1, 2}, 1)}

\* The names of the scheme of any category in the filter runs.
FilterNames == {<<"SBI", "Fund">>, <<"SBI", "Small", "Cap", "Fund">>}

\* The datasets of the filter runs: the liquid scheme 101, the large-cap
\* scheme 103, and a scheme of any category.
FilterDatasets ==
    {<<SchemePool[1], SchemePool[3],
       [SchemePool[3] EXCEPT !.scheme_code = 150, !.scheme_name = n,
                             !.scheme_category = c]>> :
        n \in FilterNames, c \in SchemeCategories}

\* The top_n of the request runs: recommend's default.  (The selection runs
\* take every top_n up to MaxTopN.)
TopNs == {5}

(***************************************************************************)
(* Operations                                                              *)
(***************************************************************************)

\* No request reached the API yet, and no response left it.
NoBody ==
    [fields |-> {}, user_id |-> "", age |-> "", monthly_sip |-> 0,
     risk_tolerance |-> <<>>, investment_horizon |-> <<>>,
     investment_goals |-> {}, experience |-> <<>>, top_n |-> {},
     min_aum_cr |-> {}]
NoResponse == [code |-> 0, status |-> "none", recommendations |-> <<>>]

\* FundRecommender.__init__: read, validate, classify.  (api.py keeps
\* engine = None when it raises.)
Construct ==
    /\ pc = "new"
    /\ load_error' = validate_error(raw_columns, raw_schemes)
    /\ IF load_error' = None
       THEN /\ df_schemes' = classify_funds(validate_dataset(raw_schemes))
            /\ pc' = "ready"
       ELSE /\ df_schemes' = <<>>
            /\ pc' = "failed"
    /\ UNCHANGED tool_vars
    /\ UNCHANGED <<catalog_vars, profile, top_n, df_filtered, alloc,
                   recommendations, outcome, api_vars>>

\* A direct call of _compute_allocation(profile).
ComputeAllocation ==
    /\ pc = "profile"
    /\ alloc' = compute_allocation(profile)
    /\ pc' = "allocated"
    /\ UNCHANGED tool_vars
    /\ UNCHANGED <<catalog_vars, load_error, df_schemes, profile, top_n,
                   df_filtered, recommendations, outcome, api_vars>>

\* recommend() raises over a filtered set that is not empty: in the scoring
\* stage, or in the explanation of a selected row.
RecommendRaises(filtered, allocation) ==
    \/ ScoringRaises(filtered)
    \/ LET rows == SelectedRows(score_funds_within_class(filtered),
                                allocation)
       IN  \E i \in 1..Len(rows) : ExplainRaises(rows[i])

\* recommend() with a filter that works on the catalog itself, not on a copy
\* of it: the filtered rows become the catalog.
Recommend_filters_in_place(p, n) ==
    /\ pc = "ready"
    /\ profile' = p
    /\ top_n' = n
    /\ df_filtered' = hard_filter(df_schemes, p)
    /\ df_schemes' = df_filtered'
    /\ IF df_filtered' = <<>>
       THEN /\ alloc' = None
            /\ recommendations' = <<>>
            /\ outcome' = "returned"
       ELSE /\ alloc' = compute_allocation(p)
            /\ IF RecommendRaises(df_filtered', alloc')
               THEN /\ recommendations' = <<>>
                    /\ outcome' = "raised"
               ELSE /\ recommendations'
                         = Truncate(Selected(
                               score_funds_within_class(df_filtered'),
                               alloc'), n)
                    /\ outcome' = "returned"
    /\ pc' = "served"
    /\ UNCHANGED tool_vars
    /\ UNCHANGED <<catalog_vars, load_error, api_vars>>

\* FundRecommender.recommend(profile, top_n): filter, allocate, score,
\* select, cut to top_n.  It returns [] when the filter leaves no row, and
\* the exception of the scoring stage leaves it.
Recommend(p, n) ==
    /\ pc = "ready"
    /\ profile' = p
    /\ top_n' = n
    /\ df_filtered' = hard_filter(df_schemes, p)
    /\ IF df_filtered' = <<>>
       THEN /\ alloc' = None
            /\ recommendations' = <<>>
            /\ outcome' = "returned"
       ELSE /\ alloc' = compute_allocation(p)
            /\ IF RecommendRaises(df_filtered', alloc')
               THEN /\ recommendations' = <<>>
                    /\ outcome' = "raised"
               ELSE /\ recommendations'
                         = Truncate(Selected(
                               score_funds_within_class(df_filtered'),
                               alloc'), n)
                    /\ outcome' = "returned"
    /\ pc' = "served"
    /\ UNCHANGED tool_vars
    /\ UNCHANGED <<catalog_vars, load_error, df_schemes, api_vars>>

\* A direct call of _explain_fund(row, profile).
ExplainFund ==
    /\ explain_outcome = None
    /\ IF ExplainRaises(explain_row)
       THEN /\ explain_outcome' = "raised"
            /\ explain_reason' = <<>>
       ELSE /\ explain_outcome' = "returned"
            /\ explain_reason' = explain_fund(explain_row)
    /\ UNCHANGED <<engine_vars, explain_row, fetch_vars, build_vars>>

\* process_all_schemes up to its loop: with resume and a checkpoint file the
\* loop starts at last_processed, else at 0; results starts empty.
StartFetch(resume) ==
    /\ fetch_pc = "idle"
    /\ fetch_resume' = resume
    /\ fetch_idx' = IF resume /\ fetch_checkpoint.exists
                    THEN fetch_checkpoint.last_processed
                    ELSE 0
    /\ fetch_results' = <<>>
    /\ fetch_pc' = "running"
    /\ UNCHANGED <<engine_vars, explain_vars, build_vars, fetch_df,
                   fetch_output, fetch_checkpoint>>

\* One iteration of the loop: the row of scheme idx is appended to results;
\* every CheckpointEvery schemes results is written to the output file and
\* idx + 1 to the checkpoint file.  (The row is the scheme code: whether the
\* fetch succeeded only sets its status and the counters.)
FetchStep ==
    /\ fetch_pc = "running"
    /\ fetch_idx < Len(fetch_df)
    /\ fetch_results' = Append(fetch_results, fetch_df[fetch_idx + 1])
    /\ IF (fetch_idx + 1) % CheckpointEvery = 0
       THEN /\ fetch_output' = [exists |-> TRUE, rows |-> fetch_results']
            /\ fetch_checkpoint'
                   = [exists |-> TRUE, last_processed |-> fetch_idx + 1]
       ELSE UNCHANGED <<fetch_output, fetch_checkpoint>>
    /\ fetch_idx' = fetch_idx + 1
    /\ UNCHANGED <<engine_vars, explain_vars, build_vars, fetch_pc, fetch_df,
                   fetch_resume>>

\* After the loop: results is written to the output file and the
\* checkpoint file is removed; os.remove raises FileNotFoundError when no
\* checkpoint file exists.
FinishFetch ==
    /\ fetch_pc = "running"
    /\ fetch_idx >= Len(fetch_df)
    /\ fetch_output' = [exists |-> TRUE, rows |-> fetch_results]
    /\ IF fetch_checkpoint.exists
       THEN /\ fetch_checkpoint' = NoCheckpoint
            /\ fetch_pc' = "done"
       ELSE /\ fetch_checkpoint' = fetch_checkpoint
            /\ fetch_pc' = "failed"
    /\ UNCHANGED <<engine_vars, explain_vars, build_vars, fetch_df,
                   fetch_resume, fetch_idx, fetch_results>>

\* The process is interrupted in its loop: what it held in memory is gone,
\* its files stay.
InterruptFetch ==
    /\ fetch_pc = "running"
    /\ fetch_pc' = "idle"
    /\ fetch_idx' = 0
    /\ fetch_results' = <<>>
    /\ UNCHANGED <<engine_vars, explain_vars, build_vars, fetch_df,
                   fetch_resume, fetch_output, fetch_checkpoint>>

RECURSIVE DropDuplicates(_)
\* DataFrame.drop_duplicates(subset=["scheme_code"]): the first row of each
\* scheme code.
DropDuplicates(rows) ==
    IF rows = <<>> THEN <<>>
    ELSE LET front == DropDuplicates(SubSeq(rows, 1, Len(rows) - 1))
             last == rows[Len(rows)]
         IN  IF \E i \in 1..Len(front) : front[i] = last THEN front
             ELSE Append(front, last)

\* main() up to its loop: the loop starts at the checkpoint's next_index (0
\* without a checkpoint file), rows_out and existing_codes start with the
\* rows of the output CSV when it exists.
StartBuild ==
    /\ build_pc = "idle"
    /\ build_i' = build_checkpoint
    /\ build_rows_out' = build_output_csv.rows
    /\ build_existing_codes'
           = {build_output_csv.rows[k] : k \in 1..Len(build_output_csv.rows)}
    /\ build_pc' = "running"
    /\ UNCHANGED <<engine_vars, explain_vars, fetch_vars, build_df_list,
                   build_save_every, build_output_csv, build_checkpoint>>

\* One iteration of the loop.  A scheme code of existing_codes is skipped
\* and the checkpoint is set to i + 1.  Else the row is appended and the
\* code added and, when the number of codes is a multiple of save_every,
\* the rows are written to the output CSV and then the checkpoint is set.
BuildStep ==
    /\ build_pc = "running"
    /\ build_i < Len(build_df_list)
    /\ LET scheme_code == build_df_list[build_i + 1]
       IN  IF scheme_code \in build_existing_codes
           THEN /\ build_checkpoint' = build_i + 1
                /\ UNCHANGED <<build_rows_out, build_existing_codes,
                               build_output_csv>>
           ELSE /\ build_rows_out' = Append(build_rows_out, scheme_code)
                /\ build_existing_codes'
                       = build_existing_codes \cup {scheme_code}
                /\ IF Cardinality(build_existing_codes') % build_save_every
                         = 0
                   THEN /\ build_output_csv'
                              = [exists |-> TRUE,
                                 rows |-> DropDuplicates(build_rows_out')]
                        /\ build_checkpoint' = build_i + 1
                   ELSE UNCHANGED <<build_output_csv, build_checkpoint>>
    /\ build_i' = build_i + 1
    /\ UNCHANGED <<engine_vars, explain_vars, fetch_vars, build_pc,
                   build_df_list, build_save_every>>

\* After the loop: the rows are written to the output CSV and the
\* checkpoint is set to the length of the list.
FinishBuild ==
    /\ build_pc = "running"
    /\ build_i >= Len(build_df_list)
    /\ build_output_csv'
           = [exists |-> TRUE, rows |-> DropDuplicates(build_rows_out)]
    /\ build_checkpoint' = Len(build_df_list)
    /\ build_pc' = "done"
    /\ UNCHANGED <<engine_vars, explain_vars, fetch_vars, build_df_list,
                   build_save_every, build_i, build_rows_out,
                   build_existing_codes>>

\* The process is interrupted in its loop: what it held in memory is gone,
\* its files stay.
InterruptBuild ==
    /\ build_pc = "running"
    /\ build_pc' = "idle"
    /\ build_i' = 0
    /\ build_rows_out' = <<>>
    /\ build_existing_codes' = {}
    /\ UNCHANGED <<engine_vars, explain_vars, fetch_vars, build_df_list,
                   build_save_every, build_output_csv, build_checkpoint>>

\* The caller is done with a request: its profile and its results, owned by
\* the request alone, are dropped, and the engine serves the next one.
EndRequest ==
    /\ pc = "served"
    /\ pc' = "ready"
    /\ profile' = None
    /\ top_n' = 0
    /\ df_filtered' = <<>>
    /\ alloc' = None
    /\ recommendations' = <<>>
    /\ outcome' = None
    /\ UNCHANGED tool_vars
    /\ UNCHANGED <<catalog_vars, load_error, df_schemes, api_vars>>

\* The parameters of FundRecommender.recommend, and the keywords with which
\* get_recommendations calls it: a keyword that is no parameter makes the
\* call raise TypeError before recommend() runs.
recommend_parameters == {"profile", "top_n"}
call_keywords == {"top_n", "min_aum_cr"}

\* The responses of get_recommendations.
ErrorResponse(code) ==
    [code |-> code, status |-> "error", recommendations |-> <<>>]
SuccessResponse(recs) ==
    [code |-> 200, status |-> "success", recommendations |-> recs]

\* The response of get_recommendations for a body, over the engine of this
\* state.
get_recommendations(body) ==
    IF pc = "failed" THEN ErrorResponse(500)
    ELSE IF ~(required_fields \subseteq body.fields) THEN ErrorResponse(400)
    ELSE IF body.age \notin DOMAIN IntOf THEN ErrorResponse(400)
    ELSE IF ~(call_keywords \subseteq recommend_parameters)
    THEN ErrorResponse(500)
    ELSE LET p == [user_id |-> body.user_id,
                   age |-> IntOf[body.age],
                   monthly_sip |-> body.monthly_sip,
                   risk_tolerance |-> body.risk_tolerance,
                   investment_horizon |-> body.investment_horizon,
                   investment_goals |-> body.investment_goals,
                   experience |-> body.experience]
             n == IF body.top_n = {} THEN 10
                  ELSE CHOOSE x \in body.top_n : TRUE
             filtered == hard_filter(df_schemes, p)
             allocation == compute_allocation(p)
         IN  IF filtered = <<>> THEN SuccessResponse(<<>>)
             ELSE IF ScoringRaises(filtered) THEN ErrorResponse(400)
             ELSE IF RecommendRaises(filtered, allocation)
             THEN ErrorResponse(500)
             ELSE SuccessResponse(
                      Truncate(Selected(score_funds_within_class(filtered),
                                        allocation), n))

\* POST /recommend with the body: the handler answers it.
PostRecommend(body) ==
    /\ pc \in {"ready", "failed"}
    /\ request' = body
    /\ response' = get_recommendations(body)
    /\ UNCHANGED tool_vars
    /\ UNCHANGED <<pc, catalog_vars, load_error, df_schemes, profile, top_n,
                   df_filtered, alloc, recommendations, outcome>>

(***************************************************************************)
(* Specifications                                                          *)
(***************************************************************************)

\* No request was made yet: the variables of a request hold nothing.
NoRequest ==
    /\ top_n = 0
    /\ df_filtered = <<>>
    /\ alloc = None
    /\ recommendations = <<>>
    /\ outcome = None
    /\ request = NoBody
    /\ response = NoResponse

\* No row was explained: the variables of the direct call hold nothing.
ExplainIdle ==
    /\ explain_row = None
    /\ explain_outcome = None
    /\ explain_reason = <<>>

\* The fetcher does not run and has no files.
FetchIdle ==
    /\ fetch_pc = "idle"
    /\ fetch_df = <<>>
    /\ fetch_resume = TRUE
    /\ fetch_idx = 0
    /\ fetch_results = <<>>
    /\ fetch_output = NoFile
    /\ fetch_checkpoint = NoCheckpoint

\* The dataset builder does not run and has no files.
BuildIdle ==
    /\ build_pc = "idle"
    /\ build_df_list = <<>>
    /\ build_save_every = 1
    /\ build_i = 0
    /\ build_rows_out = <<>>
    /\ build_existing_codes = {}
    /\ build_output_csv = NoFile
    /\ build_checkpoint = 0

\* Nothing but the engine and the API runs.
ToolsIdle == ExplainIdle /\ FetchIdle /\ BuildIdle

\* No engine was constructed and no request was made.
EngineIdle ==
    /\ pc = "new"
    /\ raw_columns = {}
    /\ raw_schemes = <<>>
    /\ load_error = None
    /\ df_schemes = <<>>
    /\ profile = None
    /\ NoRequest
    /\ stable_sort = TRUE

\* Classification of one scheme of any name and category.
InitClassify ==
    /\ pc = "new"
    /\ raw_columns = ClassifyColumns
    /\ raw_schemes \in ClassifyDatasets
    /\ load_error = None
    /\ df_schemes = <<>>
    /\ profile = None
    /\ NoRequest
    /\ ToolsIdle
    /\ stable_sort = TRUE

NextClassify == Construct

SpecClassify == InitClassify /\ [][NextClassify]_vars

\* Allocation for one profile of any age, risk, horizon and goals.
InitAlloc ==
    /\ pc = "profile"
    /\ raw_columns = {}
    /\ raw_schemes = <<>>
    /\ load_error = None
    /\ df_schemes = <<>>
    /\ profile \in AllocProfiles
    /\ NoRequest
    /\ ToolsIdle
    /\ stable_sort = TRUE

NextAlloc == ComputeAllocation

SpecAlloc == InitAlloc /\ [][NextAlloc]_vars

\* The engine: construction over a dataset, then any requests.
Init ==
    /\ pc = "new"
    /\ raw_columns = PoolColumns
    /\ raw_schemes \in Datasets
    /\ load_error = None
    /\ df_schemes = <<>>
    /\ profile = None
    /\ NoRequest
    /\ ToolsIdle
    /\ stable_sort \in BOOLEAN

Next ==
    \/ Construct
    \/ \E p \in Profiles, n \in TopNs : Recommend(p, n)
    \/ EndRequest

Spec == Init /\ [][Next]_vars

\* Construction over a dataset of any columns, with empty cells.
InitLoad ==
    /\ pc = "new"
    /\ raw_columns \in LoadColumnSets
    /\ raw_schemes \in LoadDatasets(raw_columns)
    /\ load_error = None
    /\ df_schemes = <<>>
    /\ profile = None
    /\ NoRequest
    /\ ToolsIdle
    /\ stable_sort = TRUE

NextLoad == Construct

SpecLoad == InitLoad /\ [][NextLoad]_vars

\* The engine over a dataset with a scheme of any category, then any
\* requests.
InitFilter ==
    /\ pc = "new"
    /\ raw_columns = PoolColumns
    /\ raw_schemes \in FilterDatasets
    /\ load_error = None
    /\ df_schemes = <<>>
    /\ profile = None
    /\ NoRequest
    /\ ToolsIdle
    /\ stable_sort \in BOOLEAN

SpecFilter == InitFilter /\ [][Next]_vars

\* The engine over datasets with equity schemes of equal Score, then
\* requests with any top_n.
InitSelect ==
    /\ pc = "new"
    /\ raw_columns = PoolColumns
    /\ raw_schemes \in SelectDatasets
    /\ load_error = None
    /\ df_schemes = <<>>
    /\ profile = None
    /\ NoRequest
    /\ ToolsIdle
    /\ stable_sort \in BOOLEAN

NextSelect ==
    \/ Construct
    \/ \E p \in SelectProfiles, n \in 0..MaxTopN : Recommend(p, n)
    \/ EndRequest

SpecSelect == InitSelect /\ [][NextSelect]_vars

\* The engine over datasets with and without Sharpe ratios, then any
\* requests.
InitScore ==
    /\ pc = "new"
    /\ raw_columns \in ScoreColumnSets
    /\ raw_schemes \in ScoreDatasets(raw_columns)
    /\ load_error = None
    /\ df_schemes = <<>>
    /\ profile = None
    /\ NoRequest
    /\ ToolsIdle
    /\ stable_sort \in BOOLEAN

NextScore ==
    \/ Construct
    \/ \E p \in SelectProfiles, n \in TopNs : Recommend(p, n)
    \/ EndRequest

SpecScore == InitScore /\ [][NextScore]_vars

\* The explainer called on one row of any values.
InitExplain ==
    /\ EngineIdle
    /\ explain_row \in ExplainRows
    /\ explain_outcome = None
    /\ explain_reason = <<>>
    /\ FetchIdle
    /\ BuildIdle

NextExplain == ExplainFund

SpecExplain == InitExplain /\ [][NextExplain]_vars

\* The fetcher over an input list, with no file left by an earlier run.
InitFetch ==
    /\ EngineIdle
    /\ ExplainIdle
    /\ BuildIdle
    /\ fetch_pc = "idle"
    /\ fetch_df \in FetchLists
    /\ fetch_resume = TRUE
    /\ fetch_idx = 0
    /\ fetch_results = <<>>
    /\ fetch_output = NoFile
    /\ fetch_checkpoint = NoCheckpoint

NextFetch ==
    \/ \E resume \in BOOLEAN : StartFetch(resume)
    \/ FetchStep
    \/ FinishFetch
    \/ InterruptFetch

SpecFetch == InitFetch /\ [][NextFetch]_vars

\* The dataset builder over an input list, with no file left by an earlier
\* run.
InitBuild ==
    /\ EngineIdle
    /\ ExplainIdle
    /\ FetchIdle
    /\ build_pc = "idle"
    /\ build_df_list \in BuildLists
    /\ build_save_every \in SaveEverys
    /\ build_i = 0
    /\ build_rows_out = <<>>
    /\ build_existing_codes = {}
    /\ build_output_csv = NoFile
    /\ build_checkpoint = 0

NextBuild ==
    \/ StartBuild
    \/ BuildStep
    \/ FinishBuild
    \/ InterruptBuild

SpecBuild == InitBuild /\ [][NextBuild]_vars

\* The API: the engine is constructed at startup, then requests arrive.
InitApi ==
    /\ pc = "new"
    /\ raw_columns \in ApiColumnSets
    /\ raw_schemes \in ApiDatasets
    /\ load_error = None
    /\ df_schemes = <<>>
    /\ profile = None
    /\ NoRequest
    /\ ToolsIdle
    /\ stable_sort = TRUE

NextApi ==
    \/ Construct
    \/ \E body \in Bodies : PostRecommend(body)

SpecApi == InitApi /\ [][NextApi]_vars

(***************************************************************************)
(* Properties of the allocation                                            *)
(***************************************************************************)

\* The profile names the goal tag as UserProfile writes it.
HasEmergencyTag(p) == <<"Emergency">> \in p.investment_goals
\* The profile names the goal in any letter case.
HasEmergencyAnyCase(p) ==
    \E g \in p.investment_goals : Lower(g) = <<"emergency">>
\* The horizon is under 3 years.
HorizonUnder3(p) == p.investment_horizon \in {<<"<1yr">>, <<"1-3yr">>}
\* The horizon is 3 years or more.
Horizon3OrMore(p) ==
    p.investment_horizon \in {<<"3-5yr">>, <<"3yr-5yr">>, <<"5-10yr">>,
                              <<"10+yr">>}

\* C2 (as claimed): a profile with the Emergency goal, whatever its age, risk
\* and horizon, and a profile with a horizon under 3 years, gets
\* equity_pct = 0 and debt_pct = 1.
C2_EmergencyOrShortForcesZero ==
    (pc = "allocated" /\ (HasEmergencyTag(profile) \/ HorizonUnder3(profile)))
        => (alloc.equity_pct = 0 /\ alloc.debt_pct = 100)

\* C4: for every profile, any integer age included, equity_pct and debt_pct
\* are both within [0, 1] and sum to exactly 1.
C4_AllocationIsASplit ==
    pc = "allocated"
        => /\ alloc.equity_pct \in 0..100
           /\ alloc.debt_pct \in 0..100
           /\ alloc.equity_pct + alloc.debt_pct = 100

\* C4's case: an age below 10 with a high risk tolerance, clamped to 100%.
C4_Witness ==
    /\ pc = "allocated"
    /\ profile.age = 5
    /\ profile.risk_tolerance = <<"High">>
    /\ profile.investment_horizon = <<"10+yr">>
    /\ alloc.equity_pct = 100
    /\ alloc.debt_pct = 0

\* The formula C5 quotes: the age term is clamped before the risk adjustment.
ReferenceEquity(p) ==
    LET t == Clamp(110 - p.age)
        u == IF p.risk_tolerance \in {<<"High">>, <<"Very", "High">>}
             THEN t + 10
             ELSE IF p.risk_tolerance = <<"Low">> THEN t - 20 ELSE t
    IN  Clamp(u)

\* The adjustment the code makes: by the words the risk text holds.
RiskAdjustment(p) ==
    IF p.risk_tolerance \in {<<"High">>, <<"Very", "High">>, <<"Highest">>}
    THEN 10
    ELSE IF p.risk_tolerance \in {<<"Low">>, <<"Very", "Low">>} THEN 0 - 20
    ELSE 0

\* C5 (as claimed): with no Emergency goal and a horizon of 3 years or more
\* the allocation equals the reference formula, for every integer age.
C5_EqualsReferenceForEveryAge ==
    (pc = "allocated" /\ ~HasEmergencyAnyCase(profile)
        /\ Horizon3OrMore(profile))
        => alloc.equity_pct = ReferenceEquity(profile)

\* C5 (amended): with no Emergency goal and a horizon of 3 years or more the
\* allocation is clamp(0, 100, 110 - age + adjustment) / 100, the age term
\* not clamped before the adjustment (+10 for High or Very High, -20 for Low
\* and also for Very Low); it equals the reference formula for the ages
\* 10..110 and a risk tolerance of Low, Moderate, High or Very High.
C5_EqualsUnclampedFormula ==
    (pc = "allocated" /\ ~HasEmergencyAnyCase(profile)
        /\ Horizon3OrMore(profile))
        => /\ alloc.equity_pct
                = Clamp(110 - profile.age + RiskAdjustment(profile))
           /\ (profile.age \in 10..110
               /\ profile.risk_tolerance
                    \in {<<"Low">>, <<"Moderate">>, <<"High">>,
                         <<"Very", "High">>})
                => alloc.equity_pct = ReferenceEquity(profile)

\* C5's case: age 60, Low, 3-5yr gives 0.30.
C5_Witness ==
    /\ pc = "allocated"
    /\ profile.age = 60
    /\ profile.risk_tolerance = <<"Low">>
    /\ profile.investment_horizon = <<"3-5yr">>
    /\ profile.investment_goals = {<<"Retirement">>}
    /\ alloc.equity_pct = 30

(***************************************************************************)
(* Properties of the classification                                        *)
(***************************************************************************)

\* The scheme's name holds the keyword, in any letter case.
NameHas(row, k) == Contains(Lower(row.scheme_name), k)
\* The scheme's name or category holds one of the exclusion keywords.
Excluded(row) ==
    ContainsAny(Lower(row.scheme_name) \o Lower(Str(row.scheme_category)),
                exclusion_keywords)
Rows(df) == {df[i] : i \in 1..Len(df)}

\* C6: after construction every row has one Asset_Class of the four and one
\* Risk_Grade in 1..5; the labels depend on scheme_name and scheme_category
\* only, and classifying a classified row again gives the same labels.
C6_LabelsInRangeAndFunctional ==
    pc = "ready"
        => /\ \A r \in Rows(df_schemes) :
                /\ r.Asset_Class \in AssetClasses
                /\ r.Risk_Grade \in 1..5
                /\ classify_row(r) = r.Asset_Class
                /\ risk_grade(r.scheme_category) = r.Risk_Grade
           /\ \A r1, r2 \in Rows(df_schemes) :
                (r1.scheme_name = r2.scheme_name
                 /\ r1.scheme_category = r2.scheme_category)
                    => (r1.Asset_Class = r2.Asset_Class
                        /\ r1.Risk_Grade = r2.Risk_Grade)

\* C6's case: two schemes, alike in name and category only, both labelled,
\* with a category no risk keyword matches.
C6_Witness ==
    /\ pc = "ready"
    /\ Len(df_schemes) = 2
    /\ df_schemes[1].aum_cr # df_schemes[2].aum_cr
    /\ df_schemes[1].scheme_category = NaN
    /\ df_schemes[1].Asset_Class = "Equity"
    /\ df_schemes[2].Risk_Grade = 3

NameHasGovtDebt(r) ==
    \/ NameHas(r, <<"bharat", "bond">>)
    \/ NameHas(r, <<"sdl">>)
    \/ NameHas(r, <<"g-sec">>)
    \/ NameHas(r, <<"g-security">>)

PlainIndexName(r) ==
    /\ NameHas(r, <<"index">>)
    /\ ~NameHas(r, <<"bond">>)
    /\ ~NameHas(r, <<"psu">>)

\* An earlier tier claims the scheme: exclusion, debt or hybrid.
EarlierTier(r) ==
    LET name == Lower(r.scheme_name)
        combined == name \o Lower(Str(r.scheme_category))
    IN  \/ ContainsAny(combined, exclusion_keywords)
        \/ ContainsAny(name, name_debt_keywords)
        \/ ContainsAny(combined, debt_keywords)
        \/ ContainsAny(combined, hybrid_keywords)

LiquidDebt(r) == r.Asset_Class = "Debt" /\ r.Risk_Grade = 1
\* The catalog rows with the scheme codes of the returned entries.
Recommended ==
    {r \in Rows(df_schemes) :
        \E i \in 1..Len(recommendations) :
            recommendations[i].scheme_code = r.scheme_code}

\* C1 (as claimed): for a profile whose goals hold the tag "Emergency", every
\* row the hard filter returns is Debt with Risk_Grade 1, so is every entry
\* recommend() returns, and when the catalog has no such row recommend()
\* returns the empty list without raising.
C1_EmergencyKeepsOnlyLiquidDebt ==
    (pc = "served" /\ HasEmergencyTag(profile))
        => /\ \A r \in Rows(df_filtered) : LiquidDebt(r)
           /\ \A r \in Recommended : LiquidDebt(r)
           /\ (\A r \in Rows(df_schemes) : ~LiquidDebt(r))
                => (outcome = "returned" /\ recommendations = <<>>)

\* C3: for a profile with the horizon "1-3yr" and no Emergency goal, the hard
\* filter returns no Equity row (only Debt rows and Hybrid rows whose category
\* holds "arbitrage"), and recommend() returns no Equity entry.
C3_ShortHorizonHasNoEquity ==
    (pc = "served" /\ profile.investment_horizon = <<"1-3yr">>
        /\ ~HasEmergencyAnyCase(profile))
        => /\ \A r \in Rows(df_filtered) :
                \/ r.Asset_Class = "Debt"
                \/ /\ r.Asset_Class = "Hybrid"
                   /\ Contains(cat_lower(r), <<"arbitrage">>)
           /\ \A r \in Recommended : r.Asset_Class # "Equity"
           /\ \A i \in 1..Len(recommendations) :
                recommendations[i].asset_class # "Equity"

\* C3's case: a 1-3yr request over a catalog with a large-cap
\* equity scheme that passes the viability rules; the filter keeps the
\* arbitrage scheme next to the debt scheme, and a scheme is returned.
C3_Witness ==
    /\ pc = "served"
    /\ profile.investment_horizon = <<"1-3yr">>
    /\ profile.investment_goals = {<<"Retirement">>}
    /\ profile.experience = <<"Intermediate">>
    /\ \E r \in Rows(df_schemes) :
            /\ r.Asset_Class = "Equity"
            /\ ExperienceKeeps(profile, r)
            /\ ViabilityKeeps(profile, r)
    /\ \E r \in Rows(df_filtered) : r.Asset_Class = "Hybrid"
    /\ outcome = "returned"
    /\ recommendations # <<>>

(***************************************************************************)
(* Properties of the returned list                                         *)
(***************************************************************************)

\* The request was served and recommend() returned its list.
Returned == pc = "served" /\ outcome = "returned"

\* The list recommend() built before recommendations[:top_n].
Untruncated ==
    IF df_filtered = <<>> THEN <<>>
    ELSE Selected(score_funds_within_class(df_filtered), alloc)

\* The ranks of the list are 1, 2, ..., len(list) in list order.
Ranks1ToLen(recs) == \A i \in 1..Len(recs) : recs[i].rank = i

\* No scheme_code occurs twice in the list.
NoDuplicateCodes(recs) ==
    \A i, j \in 1..Len(recs) :
        recs[i].scheme_code = recs[j].scheme_code => i = j

\* C11: for every catalog and profile the list recommend()
\* returns has the ranks 1, 2, ..., len(list) in list order, also after the
\* cut to top_n, and no scheme_code occurs in it twice.
C11_RanksAndNoDuplicateCodes ==
    Returned =>
        /\ Ranks1ToLen(recommendations)
        /\ NoDuplicateCodes(recommendations)

(***************************************************************************)
(* Properties of the outcome of a request                                  *)
(***************************************************************************)

\* C12: over a loaded catalog recommend() never raises, for any profile: it
\* returns the empty list when the hard filter leaves no row, and it returns
\* a list also when one class or one row alone passes the filter.
C12_RecommendNeverRaises ==
    pc = "served" =>
        /\ outcome = "returned"
        /\ df_filtered = <<>> => recommendations = <<>>

(***************************************************************************)
(* Properties of the selection                                             *)
(***************************************************************************)

\* The number of rows (or entries) of a class in a sequence of records with
\* the field f.
CountOf(seq, f, c) == Cardinality({i \in 1..Len(seq) : seq[i][f] = c})

\* Row q has a higher Score than row r; a row without a Score has the
\* lowest.
HigherScore(q, r) ==
    /\ q.Score # NumNaN
    /\ r.Score = NumNaN \/ q.Score > r.Score

\* C13: before the cut to top_n recommend() selects min(3, number of
\* filtered Equity rows) Equity schemes when equity_pct > 0.01 and none
\* otherwise, followed by min(k, number of filtered Debt rows) Debt schemes
\* with k = 2 when equity_pct > 0.01 and k = 3 otherwise; the selected rows of
\* a bucket have the highest Scores of the bucket; no Hybrid or Other scheme
\* is selected.
C13_SelectionCountsAndTopScores ==
    (Returned /\ df_filtered # <<>>) =>
        LET scored == score_funds_within_class(df_filtered)
            sel == Untruncated
            has_equity == alloc.equity_pct > 1
            k == IF has_equity THEN 2 ELSE 3
            nE == CountOf(sel, "asset_class", "Equity")
            nD == CountOf(sel, "asset_class", "Debt")
            Chosen(c) == {sel[i].scheme_code :
                            i \in {j \in 1..Len(sel) : sel[j].asset_class = c}}
        IN  /\ nE = IF has_equity
                    THEN Min(3, CountOf(df_filtered, "Asset_Class", "Equity"))
                    ELSE 0
            /\ nD = Min(k, CountOf(df_filtered, "Asset_Class", "Debt"))
            /\ Len(sel) = nE + nD
            /\ \A i \in 1..Len(sel) :
                   sel[i].asset_class = IF i <= nE THEN "Equity" ELSE "Debt"
            /\ \A c \in {"Equity", "Debt"} :
                   \A i, j \in 1..Len(scored) :
                       (/\ scored[i].Asset_Class = c
                        /\ scored[j].Asset_Class = c
                        /\ scored[i].scheme_code \in Chosen(c)
                        /\ scored[j].scheme_code \notin Chosen(c))
                       => ~HigherScore(scored[j], scored[i])

\* A request with an equity allocation over five filtered Equity rows and
\* three filtered Debt rows: three and two of them were selected.
C13_Witness ==
    /\ Returned
    /\ df_filtered # <<>>
    /\ alloc.equity_pct > 1
    /\ CountOf(df_filtered, "Asset_Class", "Equity") > 3
    /\ CountOf(df_filtered, "Asset_Class", "Debt") > 2
    /\ CountOf(Untruncated, "asset_class", "Equity") = 3
    /\ CountOf(Untruncated, "asset_class", "Debt") = 2

(***************************************************************************)
(* The three-scheme catalog                                                *)
(***************************************************************************)

\* The catalog of the large-cap scheme 103 (TER 0.5, AUM 2000), the liquid
\* scheme 101 (TER 0.2, AUM 5000) and the scheme 106 named "Gold ETF".
ThreeSchemeCatalog == PoolRows({1, 3, 6}, 1)

\* A Moderate / 10+yr / Intermediate profile without an emergency goal; the
\* monthly_sip of every profile covers the min_sip 500 of the three schemes.
ModerateLongIntermediate(p) ==
    /\ p.risk_tolerance = <<"Moderate">>
    /\ p.investment_horizon = <<"10+yr">>
    /\ p.experience = <<"Intermediate">>
    /\ ~HasEmergencyAnyCase(p)

FreshResult(p, n) ==
    LET catalog == classify_funds(validate_dataset(raw_schemes))
        filtered == hard_filter(catalog, p)
        allocation == compute_allocation(p)
    IN  IF filtered = <<>>
        THEN [outcome |-> "returned", recommendations |-> <<>>]
        ELSE IF RecommendRaises(filtered, allocation)
        THEN [outcome |-> "raised", recommendations |-> <<>>]
        ELSE [outcome |-> "returned",
              recommendations |->
                  Truncate(Selected(score_funds_within_class(filtered),
                                    allocation), n)]

\* The request of this state has the result of a new engine.
ResultOfFreshEngine ==
    pc = "served" =>
        LET fresh == FreshResult(profile, top_n)
        IN  /\ outcome = fresh.outcome
            /\ recommendations = fresh.recommendations

\* C15: after construction, whatever recommend() calls were made, of any
\* profiles in any order, the catalog is the one construction built from the
\* file: the same rows with the same fields and values, Asset_Class and
\* Risk_Grade included, and no other field; so a request has the result a
\* new engine gives, whatever was served before it.
C15_RequestsLeaveCatalogUnchanged ==
    pc \in {"ready", "served"} =>
        /\ df_schemes = classify_funds(validate_dataset(raw_schemes))
        /\ ResultOfFreshEngine

\* A served request with recommendations, over a catalog of several
\* classified schemes that is still the one built at construction.
C15_Witness ==
    /\ pc = "served"
    /\ recommendations # <<>>
    /\ Len(df_schemes) > Len(df_filtered)
    /\ df_schemes = classify_funds(validate_dataset(raw_schemes))

(***************************************************************************)
(* Viability of what is filtered and recommended                           *)
(***************************************************************************)

\* The row is viable for the profile: large enough, and affordable.
Viable(p, r) == r.aum_cr >= 100 /\ r.min_sip <= p.monthly_sip

\* C20: every scheme in the output of _hard_filter, and so every scheme
\* recommend() returns, has aum_cr >= 100 and min_sip <= monthly_sip; no
\* catalog row with aum_cr < 100 or min_sip > monthly_sip is recommended.
C20_FilteredAndRecommendedAreViable ==
    pc = "served" =>
        /\ \A r \in Rows(df_filtered) : Viable(profile, r)
        /\ \A i \in 1..Len(recommendations) :
               \E r \in Rows(df_filtered) :
                   /\ r.scheme_code = recommendations[i].scheme_code
                   /\ Viable(profile, r)
        /\ \A r \in Rows(df_schemes) :
               ~Viable(profile, r) =>
                   \A i \in 1..Len(recommendations) :
                       recommendations[i].scheme_code # r.scheme_code

\* A request over a catalog with a scheme too small and a scheme too dear
\* for the profile, and with a viable scheme that was recommended.
C20_Witness ==
    /\ pc = "served"
    /\ \E r \in Rows(df_schemes) : r.aum_cr < 100
    /\ \E r \in Rows(df_schemes) :
           r.aum_cr >= 100 /\ r.min_sip > profile.monthly_sip
    /\ recommendations # <<>>

(***************************************************************************)
(* Risk tolerances outside the documented four                             *)
(***************************************************************************)

\* The risk tolerances UserProfile documents.
KnownRiskTolerances ==
    {<<"Low">>, <<"Moderate">>, <<"High">>, <<"Very", "High">>}

\* The documented risk tolerance whose allocation each other text gets.
TreatedAs ==
    [r \in RiskTolerances \ KnownRiskTolerances |->
        CASE r = <<"Very", "Low">> -> <<"Low">>
          [] r = <<"Highest">> -> <<"High">>
          [] OTHER -> <<"Moderate">>]

\* The allocation of the same profile with the risk tolerance r.
AllocationWithRisk(p, r) ==
    compute_allocation([p EXCEPT !.risk_tolerance = r])

\* C18 (as stated): for every risk_tolerance other than Low, Moderate, High
\* and Very High (for example Very Low, Medium) _compute_allocation returns
\* the allocation of the same profile with risk_tolerance Moderate.
C18_UnknownRiskIsModerate ==
    (pc = "allocated" /\ profile.risk_tolerance \notin KnownRiskTolerances)
        => alloc = AllocationWithRisk(profile, <<"Moderate">>)

\* C18 (amended): for a risk_tolerance other than Low, Moderate, High and
\* Very High _compute_allocation returns an allocation, which is that of
\* Moderate when the text contains neither "high" nor "low" in any case
\* (Medium, moderate), that of Low when it contains "low" and not "high"
\* (Very Low), and that of High when it contains "high" (Highest).
C18_UnknownRiskByItsText ==
    (pc = "allocated" /\ profile.risk_tolerance \notin KnownRiskTolerances)
        => /\ alloc.equity_pct \in 0..100
           /\ alloc = AllocationWithRisk(profile,
                                         TreatedAs[profile.risk_tolerance])

\* Age 30, Medium, 10+yr, no emergency goal: 0.80 as for Moderate.
C18_Witness ==
    /\ pc = "allocated"
    /\ profile.age = 30
    /\ profile.risk_tolerance = <<"Medium">>
    /\ profile.investment_horizon = <<"10+yr">>
    /\ profile.investment_goals = {<<"Retirement">>}
    /\ alloc = [equity_pct |-> 80, debt_pct |-> 20]

(***************************************************************************)
(* Properties of loading                                                   *)
(***************************************************************************)

\* Construction has ended, with a catalog or with an exception.
Constructed == pc \in {"ready", "failed"}

\* C16: construction fails with the schema error exactly when one of the
\* mandatory columns is absent; a dataset with all six of them, whichever
\* optional columns it lacks, is loaded and classified without error.
C16_FailsExactlyWhenMandatoryAbsent ==
    Constructed =>
        /\ ~(required_cols \subseteq raw_columns)
              => pc = "failed" /\ load_error = "ValueError"
        /\ required_cols \subseteq raw_columns
              => pc = "ready" /\ load_error = None

\* The columns that C17 names as never missing after loading.
FilledColumns ==
    {"nav", "estimated_ter", "aum_cr", "cagr_3y", "cagr_5y", "min_sip"}

\* The default of a column: the values a missing value of the column f of
\* the dataset row may be replaced by.
DefaultsOf(row, f) ==
    LET fixed == [nav |-> 100, estimated_ter |-> 100, aum_cr |-> 100,
                  cagr_3y |-> 0, cagr_5y |-> 0, min_sip |-> 0]
        other == IF f \in DOMAIN ColumnFallbacks
                    /\ ColumnFallbacks[f] \in DOMAIN row
                    /\ row[ColumnFallbacks[f]] # NumNaN
                 THEN {row[ColumnFallbacks[f]]}
                 ELSE {}
    IN  IF other # {} /\ f \notin DOMAIN row THEN other
        ELSE other \cup {fixed[f]}

\* The rows of the dataset that have a scheme_code, a scheme_name and a
\* cagr_3y.
Scorable(df) ==
    SelectSeq(df, LAMBDA r : /\ r.scheme_code # NumNaN
                             /\ r.scheme_name # NaN
                             /\ r.cagr_3y # NumNaN)

\* C17: after loading the catalog has the rows of the dataset that have a
\* scheme_code, a scheme_name and a cagr_3y, and every one of them has a
\* value for nav, estimated_ter, aum_cr, cagr_3y, cagr_5y and min_sip: the
\* value of the dataset, or the default when the column is absent or the
\* cell is empty.
C17_AcceptedRowsHaveNoMissingValue ==
    pc = "ready" =>
        LET kept == Scorable(raw_schemes)
        IN  /\ Len(df_schemes) = Len(kept)
            /\ \A i \in 1..Len(df_schemes) :
                   /\ df_schemes[i].scheme_code = kept[i].scheme_code
                   /\ \A f \in FilledColumns :
                          /\ f \in DOMAIN df_schemes[i]
                          /\ df_schemes[i][f] # NumNaN
                          /\ IF f \in DOMAIN kept[i] /\ kept[i][f] # NumNaN
                             THEN df_schemes[i][f] = kept[i][f]
                             ELSE df_schemes[i][f] \in DefaultsOf(kept[i], f)

(***************************************************************************)
(* Properties of the API                                                   *)
(***************************************************************************)

\* C19: a POST /recommend whose body has all eight required fields (the
\* age a number), with or without top_n and min_aum_cr, over an initialised
\* engine ends in the success outcome: status "success", HTTP 200.
C19_CompleteBodySucceeds ==
    (/\ response.code # 0
     /\ pc = "ready"
     /\ required_fields \subseteq request.fields
     /\ request.age \in DOMAIN IntOf)
    => response.code = 200 /\ response.status = "success"

(***************************************************************************)
(* Properties of the filter                                                *)
(***************************************************************************)

\* The scheme_category of the row contains the word k, in any case.
CategoryHas(r, k) == Contains(Lower(FillNaEmpty(r.scheme_category)), k)

\* The category is one a beginner is not offered.
NotForBeginners(r) ==
    \/ CategoryHas(r, <<"sectoral">>)
    \/ CategoryHas(r, <<"thematic">>)
    \/ CategoryHas(r, <<"small">>)

\* The rows of the catalog that the returned list names.
RecommendedRows ==
    {r \in Rows(df_schemes) :
        \E i \in 1..Len(recommendations) :
            recommendations[i].scheme_code = r.scheme_code}

\* C21: for a profile with experience Beginner no scheme in the output of
\* _hard_filter or of recommend() has a scheme_category containing
\* "sectoral", "thematic" or "small" in any case, whatever the horizon and
\* the goals.
C21_BeginnerGetsNoSectoralThematicSmall ==
    (pc = "served" /\ profile.experience = <<"Beginner">>)
        => /\ \A r \in Rows(df_filtered) : ~NotForBeginners(r)
           /\ \A r \in RecommendedRows : ~NotForBeginners(r)

\* A beginner's request over a catalog with a scheme of such a category
\* that passes the horizon and viability rules; other schemes were
\* recommended.
C21_Witness ==
    /\ pc = "served"
    /\ profile.experience = <<"Beginner">>
    /\ \E r \in Rows(df_schemes) :
           /\ NotForBeginners(r)
           /\ HorizonKeeps(profile, r)
           /\ ViabilityKeeps(profile, r)
    /\ recommendations # <<>>

\* C22: for a profile with a horizon of 3-5 years and no emergency goal the
\* output of _hard_filter has only Debt rows, Hybrid rows and Equity rows
\* whose category contains "large" or "flexi"; it has no Other row and no
\* Equity row whose category contains "mid cap", "small cap" or "sectoral".
C22_MediumHorizonKeepsNoMidSmallSectoral ==
    (/\ pc = "served"
     /\ profile.investment_horizon = <<"3-5yr">>
     /\ ~HasEmergencyAnyCase(profile))
    => \A r \in Rows(df_filtered) :
          /\ \/ r.Asset_Class \in {"Debt", "Hybrid"}
             \/ /\ r.Asset_Class = "Equity"
                /\ CategoryHas(r, <<"large">>) \/ CategoryHas(r, <<"flexi">>)
          /\ r.Asset_Class # "Other"
          /\ r.Asset_Class = "Equity"
                => /\ ~CategoryHas(r, <<"mid", "cap">>)
                   /\ ~CategoryHas(r, <<"small", "cap">>)
                   /\ ~CategoryHas(r, <<"sectoral">>)

(***************************************************************************)
(* Order of equal scores                                                   *)
(***************************************************************************)

\* The scored frame of the last request.
ScoredOfRequest == score_funds_within_class(df_filtered)

\* The Score of the scheme with the code c in the scored frame.
ScoreOfCode(c) ==
    LET df == ScoredOfRequest
    IN  df[CHOOSE i \in 1..Len(df) : df[i].scheme_code = c].Score

\* The position of the scheme with the code c in the catalog.
CatalogPosition(c) ==
    CHOOSE i \in 1..Len(df_schemes) : df_schemes[i].scheme_code = c

HasSharpe(row) ==
    /\ "sharpe_1y_annualized" \in DOMAIN row
    /\ row.sharpe_1y_annualized # NumNaN

\* C24: the performance component is chosen per record: it is the row's
\* sharpe_1y_annualized when the row has one and cagr_3y / 0.15 when it has
\* none, also for a row with an empty Sharpe cell in a catalog in which
\* other rows have one.
C24_PerformancePerRecord ==
    pc = "served" =>
        \A row \in Rows(df_filtered) :
            LET perf == Performance(row)
            IN  IF HasSharpe(row)
                THEN perf.num * 10 = row.sharpe_1y_annualized * perf.den
                ELSE perf.num * 15 = row.cagr_3y * perf.den

\* C25: for every filtered set that is not empty the scoring gives every row
\* a defined Score and a Score_Normalized from 0 to 100, also in a bucket of
\* one row and in a bucket without spread.
C25_EveryScoreDefined ==
    (pc = "served" /\ df_filtered # <<>>) =>
        /\ ~ScoringRaises(df_filtered)
        /\ \A i \in 1..Len(ScoredOfRequest) :
              /\ ScoredOfRequest[i].Score # NumNaN
              /\ ScoredOfRequest[i].Score_Normalized \in 0..1000

(***************************************************************************)
(* Properties of the cut to top_n                                          *)
(***************************************************************************)

\* The rows of the class c the filter kept.
FilteredOfClass(c) == SelectSeq(df_filtered, LAMBDA r : r.Asset_Class = c)

\* The request asks for at most three schemes, its allocation has equity and
\* debt, and the filter kept three Equity rows or more.
ThreeEquityFillTheList ==
    /\ pc = "served"
    /\ outcome = "returned"
    /\ df_filtered # <<>>
    /\ top_n <= 3
    /\ alloc.equity_pct > 1
    /\ alloc.debt_pct > 0
    /\ Len(FilteredOfClass("Equity")) >= 3

Priority(fragment) ==
    CASE fragment \in {"Large AUM (stability)", "Healthy AUM"} -> 1
      [] fragment \in {"Low expense ratio", "Reasonable costs"} -> 2
      [] fragment = "Strong 3Y returns" -> 3
      [] fragment = "Top-10 AMC" -> 4
      [] fragment = "Direct Plan (lower fees)" -> 5
      [] OTHER -> 0

\* The text has the fragment.
HasFragment(reason, fragment) ==
    \E i \in 1..Len(reason) : reason[i] = fragment

\* The fund house of the row has the name of an AMC of the list in it.
TopAmc(row) == \E amc \in top_amcs : Contains(row.fund_house, amc)

\* C26: _explain_fund returns the fragments that apply in the order AUM,
\* cost, performance, AMC, plan, one fragment of a kind at most: Large AUM
\* for aum_cr >= 1000, else Healthy AUM for aum_cr >= 100; Low expense ratio
\* for TER < 0.5, else Reasonable costs for TER < 1.0; Strong 3Y returns
\* exactly for cagr_3y > 0.15; the Direct Plan fragment exactly for the plan
\* Direct; and the fallback text exactly when no fragment applies.
C26_FragmentsInOrder ==
    explain_outcome = "returned" =>
        LET row == explain_row
            reason == explain_reason
            none == /\ row.aum_cr < 100
                    /\ row.estimated_ter >= 100
                    /\ row.cagr_3y <= 15
                    /\ ~TopAmc(row)
                    /\ row.plan # <<"Direct">>
        IN  /\ reason = GenericReason <=> none
            /\ ~none =>
                  /\ \A i \in 1..Len(reason) : Priority(reason[i]) >= 1
                  /\ \A i, j \in 1..Len(reason) :
                        i < j => Priority(reason[i]) < Priority(reason[j])
            /\ HasFragment(reason, "Large AUM (stability)")
                   <=> row.aum_cr >= 1000
            /\ HasFragment(reason, "Healthy AUM")
                   <=> (row.aum_cr >= 100 /\ row.aum_cr < 1000)
            /\ HasFragment(reason, "Low expense ratio")
                   <=> row.estimated_ter < 50
            /\ HasFragment(reason, "Reasonable costs")
                   <=> (row.estimated_ter >= 50 /\ row.estimated_ter < 100)
            /\ HasFragment(reason, "Strong 3Y returns") <=> row.cagr_3y > 15
            /\ HasFragment(reason, "Top-10 AMC") <=> TopAmc(row)
            /\ HasFragment(reason, "Direct Plan (lower fees)")
                   <=> row.plan = <<"Direct">>

\* A row to which a fragment of each kind applies got the five fragments.
C26_Witness ==
    /\ explain_outcome = "returned"
    /\ explain_row.aum_cr >= 100
    /\ explain_row.estimated_ter < 100
    /\ explain_row.cagr_3y > 15
    /\ TopAmc(explain_row)
    /\ explain_row.plan = <<"Direct">>
    /\ Len(explain_reason) = 5

\* C30: the reason of every entry recommend() returns begins with an AUM
\* fragment and is never the fallback text: every row that reaches the
\* explainer has passed the rule aum_cr >= 100.
C30_ReasonBeginsWithAum ==
    Returned =>
        \A i \in 1..Len(recommendations) :
            /\ recommendations[i].reason # GenericReason
            /\ Priority(recommendations[i].reason[1]) = 1

\* A request over a catalog with a scheme under 100 crores returned a list,
\* with an entry of a scheme under 1000 crores in it.
C30_Witness ==
    /\ Returned
    /\ \E r \in Rows(df_schemes) : r.aum_cr < 100
    /\ \E i \in 1..Len(recommendations) :
           recommendations[i].reason[1] = "Healthy AUM"

(***************************************************************************)
(* Properties of the dataset tools                                         *)
(***************************************************************************)

\* The scheme codes of the rows of a file.
CodesIn(file) == {file.rows[k] : k \in 1..Len(file.rows)}

\* C27: a run of process_all_schemes with resume that completes, after a
\* run that was interrupted when a checkpoint was written, leaves an output
\* file with a row for every scheme of the input list, the schemes of the
\* interrupted run included.
C27_ResumedRunHasEveryScheme ==
    (fetch_pc = "done" /\ fetch_resume) =>
        \A k \in 1..Len(fetch_df) : fetch_df[k] \in CodesIn(fetch_output)

\* C28: once a run of main() completes, the output CSV has exactly one row
\* for every scheme code of the list, whatever the list repeats and whatever
\* runs were interrupted before; and at every point every list position
\* before the checkpoint's next_index has its row in the output CSV.
C28_OneRowPerCodeAndCheckpointBehindCsv ==
    /\ build_pc = "done" =>
          /\ CodesIn(build_output_csv)
                 = {build_df_list[k] : k \in 1..Len(build_df_list)}
          /\ Len(build_output_csv.rows)
                 = Cardinality(CodesIn(build_output_csv))
    /\ \A k \in 1..build_checkpoint :
          build_df_list[k] \in CodesIn(build_output_csv)

====
